---- MODULE Spec2Model ----
(***************************************************************************)
(* paircoded: the control channel actor (control.rs), the main loop        *)
(* (main.rs), the terminal manager and its supervising tasks               *)
(* (terminal_manager.rs) and the bridge (bridge.rs).                       *)
(*                                                                         *)
(* A terminal is identified in the model by the request id of the          *)
(* StartTerminal that created it; its name is the PID of its child, which  *)
(* the operating system may hand out again once the child has been reaped. *)
(***************************************************************************)
EXTENDS Integers, Sequences, FiniteSets, TLC

\* ---- bounds -------------------------------------------------------------
MaxReqs == 2        \* StartTerminal requests the relay sends
MaxPid == 2         \* the operating system hands out PIDs 1..MaxPid
MaxChunks == 2      \* chunks the PTY reader delivers for one terminal
MaxQueue == 2       \* control events the relay keeps in flight
MaxFrames == 2      \* frames the relay sends on the data links of one terminal
MaxCap == 1         \* items a data-link channel holds (mpsc::channel(64), scaled)
MaxSkips == 1       \* malformed control frames the relay sends
MaxRetries == 2     \* consecutive next_delay calls while terminals are hosted
MaxTaskDelay == 2   \* a data connect fails only below this reconnect_delay (seconds)
MaxAttempts == 34   \* consecutive next_delay calls of the reconnect loop alone

Reqs == 1..MaxReqs
Pids == 1..MaxPid
NoTerm == 0
NoPid == 0
NoCode == -1
ExitFrame == 0      \* ClientMessage::Exit in out; an Output is its chunk number >= 1
HandshakeFrame == -1    \* ClientMessage::Handshake
SnapshotFrame == -2     \* ClientMessage::Snapshot
CloseFrame == -3        \* Message::Close, normal, "client shutdown"
first_reconnect_delay == 1  \* run_terminal_task: Duration::from_secs(1)
max_reconnect_delay == 30   \* run_terminal_task: Duration::from_secs(30)
NoSize == <<-1, -1>>    \* no PTY and no emulator yet
NoDelay == -1           \* main is not in a reconnect wait
base_delay == 1         \* ReconnectManager::new: Duration::from_secs(1)
max_delay == 60         \* ReconnectManager::new: Duration::from_secs(60)
Bits == 16              \* a u32 is kept as <<high, low>> halves of 16 bits
Half == 2^Bits

VARIABLES
    current_attempt,    \* ReconnectManager.current_attempt
    delay,              \* the delay of the reconnect wait main is in, in seconds
    reconnect_delay,    \* per terminal: reconnect_delay of its task, in seconds
    reconnect,          \* config.reconnect
    pty_size,           \* per terminal: window size of its PTY, <<cols, rows>>
    parser_size,        \* per terminal: size of its VT emulator, <<cols, rows>>
    parser_fed,         \* per terminal: chunks the VT emulator has processed
    snapshots,          \* per terminal: Snapshot messages handed to relay_tx
    event_tx_wait,      \* the event the actor waits to send on a full event_tx
    command_tx_wait,    \* the command main waits to send on a full command_tx
    exit_cause,         \* why main left 'main: "none", "connect_failed",
                        \* "link_lost", "channel_closed", "ctrl_c"
    exit_status,        \* the exit code of the process (NoCode: it has not exited)
    enqueued,           \* per terminal: the types of the commands about it that
                        \* a command_tx has accepted, in order
    actorEnd,           \* why the control actor left its loop: "none", "close",
                        \* "error", "eof", "write", "shutdown"
    mainPc,             \* position of main: "connect", "loop", "backoff",
                        \* "exited", "panicked"
    ctlConn,            \* control actor: "none", "up", "ended"
    control_event_q,    \* mpsc channel event_tx -> control_event_rx
    command_q,          \* mpsc channel command_tx -> command_rx
    wire,               \* frames written on the current control link
    nextReq,            \* next request id the relay uses
    startedFrames,      \* per request: TerminalStarted frames written
    startedOk,          \* per request: result of start_terminal ("none" before)
    closedFrames,       \* per terminal: TerminalClosed frames written
    terminal_event_q,   \* mpsc channel event_tx -> terminal_event_rx
    terminals,          \* TerminalManager.terminals: name -> terminal
    terminals_lock,     \* the function that holds the mutex of terminals
                        \* between two steps, or "free"
    pid,                \* per terminal: PID of the spawned child (NoPid: none)
    child,              \* per terminal: "none", "running", "ok", "fail"
    reaped,             \* per terminal: try_wait has returned the exit status
    taskPc,             \* per terminal: position of run_terminal_task
    shutdown_rx,        \* per terminal: oneshot "pending", "fired", "dropped"
    paused,             \* per terminal: Bridge.paused
    output_buffer,      \* per terminal: output_buffer of the current run
    taken,              \* per terminal: chunks taken from pty_rx
    out,                \* per terminal: frames enqueued to relay_tx (all runs)
    exitCode,           \* per terminal: exit_code of its Exited event
    how,                \* per terminal: "none", "child", "shutdown"
    left,               \* per terminal: how its map entry went away
    socket,             \* per terminal: frames written on its current data socket
    relay_tx_q,         \* per terminal: channel relay_tx -> rx_from_bridge
    sendTask,           \* per terminal: outbound half "none", "up", "ended"
    relay_rx_q,         \* per terminal: channel tx_to_bridge -> relay_rx
    recvTask,           \* per terminal: inbound half "none", "up", "ended"
    received,           \* per terminal: frames its inbound halves have read
    pending,            \* per terminal: frames the bridge waits to enqueue
    lastData,           \* per terminal: the frame its inbound half read last
    skippedData,        \* per terminal: frames its current inbound half skipped
    skipped             \* malformed control frames the actor has skipped

chanVars == <<event_tx_wait, command_tx_wait>>
exitVars == <<exit_cause, exit_status>>
ctlVars == <<chanVars, exitVars, enqueued, current_attempt, delay, reconnect, mainPc, ctlConn, actorEnd, control_event_q, command_q, wire,
             nextReq, startedFrames, startedOk, closedFrames, skipped>>
mgrVars == <<terminal_event_q, terminals, terminals_lock, left>>
termVars == <<pid, reconnect_delay, child, reaped, taskPc, shutdown_rx, exitCode, how>>
linkVars == <<socket, relay_tx_q, sendTask, relay_rx_q, recvTask, received,
              pending, lastData, skippedData>>
screenVars == <<pty_size, parser_size, parser_fed, snapshots>>
dataVars == <<paused, output_buffer, taken, out, linkVars, screenVars>>
vars == <<ctlVars, mgrVars, termVars, dataVars>>

\* ---- helpers ------------------------------------------------------------
Event(t, a) == [type |-> t, arg |-> a]
Command(t, a, c) == [type |-> t, arg |-> a, code |-> c]

Running == mainPc \notin {"exited", "panicked"}

\* control.rs: a send on command_tx fails once the actor has dropped command_rx
SendCommand(q, c) == IF ctlConn = "up" THEN Append(q, c) ELSE q

\* control.rs: command_tx.send(c).await of terminal_started / terminal_closed
\* on a channel with room: the channel accepts the command iff the actor lives
Enqueue(c) ==
    /\ command_q' = SendCommand(command_q, c)
    /\ enqueued' = IF ctlConn = "up"
                   THEN [enqueued EXCEPT ![c.arg] = Append(@, c.type)]
                   ELSE enqueued

\* a serialisation that writes every command as a handshake
Frame_Handshake(c) == "control_handshake"

\* the frame a command is serialised to
Frame(c) == IF c.type = "TerminalStarted" THEN "terminal_started" ELSE "terminal_closed"

Init ==
    /\ current_attempt = 0
    /\ delay = NoDelay
    /\ reconnect \in BOOLEAN
    /\ mainPc = "connect"
    /\ exit_cause = "none"
    /\ exit_status = NoCode
    /\ enqueued = [r \in Reqs |-> <<>>]
    /\ ctlConn = "none"
    /\ actorEnd = "none"
    /\ event_tx_wait = <<>>
    /\ command_tx_wait = <<>>
    /\ control_event_q = <<>>
    /\ command_q = <<>>
    /\ wire = <<>>
    /\ nextReq = 1
    /\ startedFrames = [r \in Reqs |-> 0]
    /\ startedOk = [r \in Reqs |-> "none"]
    /\ closedFrames = [r \in Reqs |-> 0]
    /\ terminal_event_q = <<>>
    /\ terminals = [n \in Pids |-> NoTerm]
    /\ terminals_lock = "free"
    /\ left = [r \in Reqs |-> "no"]
    /\ pid = [r \in Reqs |-> NoPid]
    /\ reconnect_delay = [r \in Reqs |-> first_reconnect_delay]
    /\ child = [r \in Reqs |-> "none"]
    /\ reaped = [r \in Reqs |-> FALSE]
    /\ taskPc = [r \in Reqs |-> "none"]
    /\ shutdown_rx = [r \in Reqs |-> "pending"]
    /\ exitCode = [r \in Reqs |-> NoCode]
    /\ how = [r \in Reqs |-> "none"]
    /\ paused = [r \in Reqs |-> FALSE]
    /\ pty_size = [r \in Reqs |-> NoSize]
    /\ parser_size = [r \in Reqs |-> NoSize]
    /\ parser_fed = [r \in Reqs |-> <<>>]
    /\ snapshots = [r \in Reqs |-> <<>>]
    /\ output_buffer = [r \in Reqs |-> <<>>]
    /\ taken = [r \in Reqs |-> 0]
    /\ out = [r \in Reqs |-> <<>>]
    /\ socket = [r \in Reqs |-> <<>>]
    /\ relay_tx_q = [r \in Reqs |-> <<>>]
    /\ sendTask = [r \in Reqs |-> "none"]
    /\ relay_rx_q = [r \in Reqs |-> <<>>]
    /\ recvTask = [r \in Reqs |-> "none"]
    /\ received = [r \in Reqs |-> 0]
    /\ pending = [r \in Reqs |-> <<>>]
    /\ lastData = [r \in Reqs |-> <<>>]
    /\ skippedData = [r \in Reqs |-> 0]
    /\ skipped = 0

\* ---- control channel actor (control.rs) ---------------------------------
\* a start_terminal message arrives and is forwarded as an event
ActorRecvStart ==
    /\ Running /\ ctlConn = "up"
    /\ event_tx_wait = <<>>
    /\ nextReq <= MaxReqs
    /\ Len(control_event_q) < MaxQueue
    /\ control_event_q' = Append(control_event_q, Event("StartTerminal", nextReq))
    /\ nextReq' = nextReq + 1
    /\ UNCHANGED <<chanVars, exitVars, enqueued, current_attempt, delay, reconnect, skipped, mainPc, ctlConn, actorEnd, command_q, wire, startedFrames,
                   startedOk, closedFrames, mgrVars, termVars, dataVars>>

\* a close_terminal message arrives and is forwarded as an event
ActorRecvClose(n) ==
    /\ Running /\ ctlConn = "up"
    /\ event_tx_wait = <<>>
    /\ Len(control_event_q) < MaxQueue
    /\ control_event_q' = Append(control_event_q, Event("CloseTerminal", n))
    /\ UNCHANGED <<chanVars, exitVars, enqueued, current_attempt, delay, reconnect, skipped, mainPc, ctlConn, actorEnd, command_q, wire, nextReq,
                   startedFrames, startedOk, closedFrames, mgrVars, termVars,
                   dataVars>>

\* a channel that takes every item
HasRoom_Always(q) == TRUE

\* a channel of mpsc::channel(64), scaled to MaxCap slots, has a free slot
HasRoom(q) == Len(q) < MaxCap

\* a start_terminal (n = NoPid) or close_terminal message arrives with event_tx
\* full: the actor waits in event_tx.send
ActorRecvWaits(n) ==
    /\ Running /\ ctlConn = "up"
    /\ event_tx_wait = <<>>
    /\ ~HasRoom(control_event_q)
    /\ IF n = NoPid
       THEN /\ nextReq <= MaxReqs
            /\ event_tx_wait' = <<Event("StartTerminal", nextReq)>>
            /\ nextReq' = nextReq + 1
       ELSE /\ event_tx_wait' = <<Event("CloseTerminal", n)>>
            /\ UNCHANGED nextReq
    /\ UNCHANGED <<exitVars, enqueued, command_tx_wait, current_attempt, delay, reconnect, skipped, mainPc,
                   ctlConn, actorEnd, control_event_q, command_q, wire, startedFrames,
                   startedOk, closedFrames, mgrVars, termVars, dataVars>>

\* the send the actor waits in completes: control_event_rx has a free slot
ActorSendDone ==
    /\ Running /\ ctlConn = "up"
    /\ event_tx_wait # <<>>
    /\ HasRoom(control_event_q)
    /\ control_event_q' = Append(control_event_q, Head(event_tx_wait))
    /\ event_tx_wait' = <<>>
    /\ UNCHANGED <<exitVars, enqueued, command_tx_wait, current_attempt, delay, reconnect, skipped, mainPc,
                   ctlConn, actorEnd, command_q, wire, nextReq, startedFrames,
                   startedOk, closedFrames, mgrVars, termVars, dataVars>>

\* a clean flag that is always set
Clean_Always(cause) == 1

\* the clean flag of the Disconnected event: 1 for true, 0 for false
Clean(cause) == IF cause = "close" THEN 1 ELSE 0

\* close frame, socket error or end of stream: Disconnected is sent, the actor ends
ActorDisconnected(cause) ==
    /\ Running /\ ctlConn = "up"
    /\ event_tx_wait = <<>>
    /\ control_event_q' = Append(control_event_q, Event("Disconnected", Clean(cause)))
    /\ ctlConn' = "ended"
    /\ actorEnd' = cause
    /\ command_q' = <<>>
    /\ UNCHANGED <<chanVars, exitVars, enqueued, current_attempt, delay, reconnect, skipped, mainPc, wire, nextReq, startedFrames, startedOk,
                   closedFrames, mgrVars, termVars, dataVars>>

\* a command is taken from command_rx and written as a text frame
ActorWrite ==
    /\ Running /\ ctlConn = "up"
    /\ event_tx_wait = <<>>
    /\ command_q # <<>>
    /\ Head(command_q).type # "Shutdown"
    /\ LET c == Head(command_q) IN
        /\ command_q' = Tail(command_q)
        /\ wire' = Append(wire, Frame(c))
        /\ startedFrames' = IF c.type = "TerminalStarted"
                            THEN [startedFrames EXCEPT ![c.arg] = @ + 1]
                            ELSE startedFrames
        /\ closedFrames' = IF c.type = "TerminalClosed"
                           THEN [closedFrames EXCEPT ![c.arg] = @ + 1]
                           ELSE closedFrames
    /\ UNCHANGED <<chanVars, exitVars, enqueued, current_attempt, delay, reconnect, skipped, mainPc, ctlConn, actorEnd, control_event_q, nextReq,
                   startedOk, mgrVars, termVars, dataVars>>

\* ws_sink.send fails: the actor breaks without a Disconnected event
ActorWriteFails ==
    /\ Running /\ ctlConn = "up"
    /\ event_tx_wait = <<>>
    /\ command_q # <<>>
    /\ Head(command_q).type # "Shutdown"
    /\ ctlConn' = "ended"
    /\ actorEnd' = "write"
    /\ command_q' = <<>>
    /\ UNCHANGED <<chanVars, exitVars, enqueued, current_attempt, delay, reconnect, skipped, mainPc, control_event_q, wire, nextReq,
                   startedFrames, startedOk, closedFrames, mgrVars, termVars,
                   dataVars>>

\* Message::Close with CloseCode::Normal and reason "client shutdown"
ControlClose == "close_normal_client_shutdown"

\* a Shutdown after which the actor goes on with its loop
ActorShutdown_StaysUp(written) ==
    /\ Running /\ ctlConn = "up"
    /\ event_tx_wait = <<>>
    /\ command_q # <<>>
    /\ Head(command_q).type = "Shutdown"
    /\ wire' = IF written THEN Append(wire, ControlClose) ELSE wire
    /\ actorEnd' = "shutdown"
    /\ command_q' = Tail(command_q)
    /\ UNCHANGED <<chanVars, exitVars, enqueued, current_attempt, delay, reconnect, skipped, mainPc, ctlConn,
                   control_event_q, nextReq, startedFrames, startedOk,
                   closedFrames, mgrVars, termVars, dataVars>>

\* Shutdown is taken from command_rx: the close frame is sent (let _ =: a
\* failed send is ignored) and the actor ends, without a Disconnected event
ActorShutdown(written) ==
    /\ Running /\ ctlConn = "up"
    /\ event_tx_wait = <<>>
    /\ command_q # <<>>
    /\ Head(command_q).type = "Shutdown"
    /\ wire' = IF written THEN Append(wire, ControlClose) ELSE wire
    /\ ctlConn' = "ended"
    /\ actorEnd' = "shutdown"
    /\ command_q' = <<>>
    /\ UNCHANGED <<chanVars, exitVars, enqueued, current_attempt, delay, reconnect, skipped, mainPc,
                   control_event_q, nextReq, startedFrames, startedOk,
                   closedFrames, mgrVars, termVars, dataVars>>

\* ControlConnection::shutdown, called by an owner that then lets the
\* connection be: Shutdown is enqueued behind the commands sent before
ControlShutdown ==
    /\ mainPc = "loop"
    /\ mainPc' = "closing"
    /\ command_q' = SendCommand(command_q, Command("Shutdown", 0, 0))
    /\ UNCHANGED <<chanVars, exitVars, enqueued, current_attempt, delay, reconnect, skipped, ctlConn, actorEnd,
                   control_event_q, wire, nextReq, startedFrames, startedOk,
                   closedFrames, mgrVars, termVars, dataVars>>

\* ControlMessage::parse_str: a text frame is a start_terminal or a
\* close_terminal message, or it is no known JSON message
ControlMessageParse(text) ==
    IF text = "start_terminal" THEN "StartTerminal"
    ELSE IF text = "close_terminal" THEN "CloseTerminal"
    ELSE "Err"

\* a frame that does not parse is logged and skipped
ActorRecvMalformed(text) ==
    /\ Running /\ ctlConn = "up"
    /\ event_tx_wait = <<>>
    /\ ControlMessageParse(text) = "Err"
    /\ skipped < MaxSkips
    /\ skipped' = skipped + 1
    /\ UNCHANGED <<chanVars, exitVars, enqueued, current_attempt, delay, reconnect, mainPc, ctlConn, actorEnd, control_event_q, command_q, wire,
                   nextReq, startedFrames, startedOk, closedFrames, mgrVars,
                   termVars, dataVars>>

\* ---- terminal manager (terminal_manager.rs) -----------------------------
\* start_terminal without its check for an existing name
ContainsKey_Never(m, n) == FALSE

ContainsKey(m, n) == m[n] # NoTerm

Insert(m, n, r) == [m EXCEPT ![n] = r]

\* a removal that empties the map
RemoveTerminal_Clear(m, n) == [k \in Pids |-> NoTerm]

\* a removal that leaves the entry in the map
RemoveTerminal_Keeps(m, n) == m

RemoveTerminal(m, n) == [m EXCEPT ![n] = NoTerm]

HasEntry(m, r) == \E n \in Pids : m[n] = r

\* PIDs the operating system can give to a new child: those of no unreaped child
FreePids == {p \in Pids : \A r \in Reqs : pid[r] = p => reaped[r]}

\* the map becomes m2; an entry that went away drops its Terminal: cause says
\* why, sig is what its shutdown_rx observes (the receiver is gone once the
\* task has ended)
MapStep(m2, cause, sig) ==
    LET gone == {r \in Reqs : HasEntry(terminals, r) /\ ~HasEntry(m2, r)} IN
    /\ terminals' = m2
    /\ left' = [r \in Reqs |-> IF r \in gone THEN cause ELSE left[r]]
    /\ shutdown_rx' = [r \in Reqs |->
          IF r \in gone /\ shutdown_rx[r] = "pending" /\ taskPc[r] # "done"
          THEN sig ELSE shutdown_rx[r]]

\* ---- ReconnectManager (control.rs) --------------------------------------
Min(a, b) == IF a < b THEN a ELSE b

\* u32 multiplication by 2^k, k < Bits: the wrapped product and whether it
\* overflowed
MulPow2(w, k) ==
    LET lo2 == w[2] * 2^k
        hi2 == w[1] * 2^k + (lo2 \div Half)
    IN  [val |-> <<hi2 % Half, lo2 % Half>>, ovf |-> hi2 >= Half]

\* 2u32.pow(n): the wrapped power and whether a multiplication overflowed;
\* the factors of two are multiplied in Bits - 1 at a time
RECURSIVE Pow2U32(_)
Pow2U32(n) ==
    IF n < Bits THEN MulPow2(<<0, 1>>, n)
    ELSE LET p == Pow2U32(n - (Bits - 1))
             d == MulPow2(p.val, Bits - 1)
         IN  [val |-> d.val, ovf |-> p.ovf \/ d.ovf]

\* min(base_delay * w, max_delay), in seconds; a w of 2^16 or more is
\* bounded from below by 2^16, which is enough to decide the minimum
DelayOf(w) ==
    IF w[1] > 0 THEN Min(base_delay * Half, max_delay)
    ELSE Min(base_delay * w[2], max_delay)

\* let delay = reconnect_mgr.next_delay(), then the wait of that length. With
\* overflow checks (debug build) an overflowing power panics; without them
\* (release build) it wraps.
NextDelayThenWait ==
    \E checked \in BOOLEAN :
        LET p == Pow2U32(current_attempt) IN
        IF p.ovf /\ checked
        THEN /\ mainPc' = "panicked"
             /\ UNCHANGED <<chanVars, exitVars, enqueued, current_attempt, delay>>
        ELSE /\ mainPc' = "backoff"
             /\ delay' = DelayOf(p.val)
             /\ current_attempt' = current_attempt + 1
             /\ UNCHANGED exitVars

\* reconnection disabled: break 'main
\* main.rs: every break out of 'main reaches std::process::exit(0)
ProcessExit(cause) == 0

\* break 'main
BreakMain(cause) ==
    /\ mainPc' = "exited"
    /\ exit_cause' = cause
    /\ exit_status' = ProcessExit(cause)

ExitNoReconnect(cause) ==
    /\ BreakMain(cause)
    /\ UNCHANGED <<chanVars, current_attempt, delay>>

\* the reconnect loop has made fewer than cap consecutive next_delay calls
Retry(cap) == reconnect => current_attempt < cap

\* ---- main loop (main.rs) ------------------------------------------------
\* a connect that also starts over with an empty terminal map
MainConnect_NewManager(ok) ==
    /\ mainPc = "connect"
    /\ IF ok
       THEN /\ mainPc' = "loop"
            /\ ctlConn' = "up"
            /\ actorEnd' = "none"
            /\ wire' = <<"control_handshake">>
            /\ current_attempt' = 0
            /\ UNCHANGED <<delay, exitVars>>
       ELSE /\ IF reconnect THEN NextDelayThenWait ELSE ExitNoReconnect("connect_failed")
            /\ UNCHANGED <<ctlConn, actorEnd, wire>>
    /\ control_event_q' = <<>>
    /\ command_q' = <<>>
    /\ terminals' = [n \in Pids |-> NoTerm]
    /\ UNCHANGED <<terminals_lock, chanVars, enqueued, reconnect, skipped, nextReq, startedFrames, startedOk, closedFrames,
                   terminal_event_q, left, termVars, dataVars>>

\* ControlConnection::connect: the handshake is written before the actor starts
MainConnect(ok) ==
    /\ mainPc = "connect"
    /\ IF ok
       THEN /\ mainPc' = "loop"
            /\ ctlConn' = "up"
            /\ actorEnd' = "none"
            /\ wire' = <<"control_handshake">>
            /\ current_attempt' = 0
            /\ UNCHANGED <<delay, exitVars>>
       ELSE /\ IF reconnect THEN NextDelayThenWait ELSE ExitNoReconnect("connect_failed")
            /\ UNCHANGED <<ctlConn, actorEnd, wire>>
    /\ control_event_q' = <<>>
    /\ command_q' = <<>>
    /\ UNCHANGED <<chanVars, enqueued, reconnect, skipped, nextReq, startedFrames, startedOk, closedFrames,
                   mgrVars, termVars, dataVars>>

\* the reconnect sleep ends
MainBackoffDone ==
    /\ mainPc = "backoff"
    /\ mainPc' = "connect"
    /\ delay' = NoDelay
    /\ UNCHANGED <<chanVars, exitVars, enqueued, current_attempt, reconnect, skipped, ctlConn, actorEnd, control_event_q, command_q, wire, nextReq,
                   startedFrames, startedOk, closedFrames, mgrVars, termVars,
                   dataVars>>

\* ctrl-c in the event loop or in the reconnect wait: break 'main, process::exit
MainCtrlC ==
    /\ mainPc \in {"loop", "backoff"}
    /\ BreakMain("ctrl_c")
    /\ UNCHANGED <<chanVars, enqueued, current_attempt, delay, reconnect, skipped, ctlConn, actorEnd, control_event_q, command_q, wire, nextReq,
                   startedFrames, startedOk, closedFrames, mgrVars, termVars,
                   dataVars>>

\* ---- PTY window and VT emulator (pty.rs, vt100::Parser) ------------------
\* the (cols, rows) that StartTerminal request r asks for
RequestedSize(r) == <<80 + r, 24 + r>>

\* the (cols, rows) the Resize frames of the relay carry
ResizeSizes == {<<0, 0>>, <<132, 43>>, <<65535, 1>>}

\* the request ids the SnapshotRequest frames of the relay carry
SnapshotIds == {1, 2}

\* PtyHandle::resize(cols, rows): the window size the PTY then has
PtyResize(cols, rows) == <<cols, rows>>

\* an emulator that takes its arguments as (cols, rows)
ParserSetSize_Swapped(rows, cols) == <<rows, cols>>

\* vt100::Parser::new(rows, cols, 0) and set_size(rows, cols): the size the
\* emulator then has, as <<cols, rows>>
ParserSetSize(rows, cols) == <<cols, rows>>

\* an emulator that keeps only the chunks it gets while its screen is empty
ParserProcess_FirstOnly(fed, chunk) == IF fed = <<>> THEN <<chunk>> ELSE fed

\* parser.process(data): the emulator has processed one more chunk
ParserProcess(fed, chunk) == Append(fed, chunk)

\* screen.cursor_position(), as <<row, col>>: every chunk of the model moves
\* the cursor one row down and two columns to the right
CursorPosition(fed) == <<Len(fed), 2 * Len(fed)>>

\* a snapshot that sends the cursor as (row, col)
CreateSnapshot_Swapped(i, id) ==
    LET pos == CursorPosition(parser_fed[i]) IN
    [request_id |-> id, screen |-> parser_fed[i],
     cols |-> parser_size[i][1], rows |-> parser_size[i][2],
     cursor_x |-> pos[1], cursor_y |-> pos[2]]

\* Bridge::create_snapshot
CreateSnapshot(i, id) ==
    LET pos == CursorPosition(parser_fed[i]) IN
    [request_id |-> id, screen |-> parser_fed[i],
     cols |-> parser_size[i][1], rows |-> parser_size[i][2],
     cursor_x |-> pos[2], cursor_y |-> pos[1]]

\* StartTerminal: start_terminal, then terminal_started. p is the PID of the
\* start_terminal returns Ok
StartOk(p, setup) == p # NoPid /\ ~ContainsKey(terminals, p) /\ setup

\* the command that answers the StartTerminal event main is handling
TerminalStarted(p, setup) ==
    Command("TerminalStarted", Head(control_event_q).arg,
            IF StartOk(p, setup) THEN 0 ELSE 1)

\* spawned child (NoPid: the spawn failed); setup is the outcome of resize and
\* AsyncPty::new.
StartTerminal(p, setup) ==
    /\ mainPc = "loop"
    /\ control_event_q # <<>>
    /\ Head(control_event_q).type = "StartTerminal"
    /\ LET r == Head(control_event_q).arg
           ok == StartOk(p, setup)
       IN
        /\ pid' = [pid EXCEPT ![r] = p]
        /\ child' = [child EXCEPT ![r] = IF p # NoPid THEN "running" ELSE "none"]
        /\ taskPc' = [taskPc EXCEPT ![r] = IF ok THEN "connect" ELSE "none"]
        /\ pty_size' = [pty_size EXCEPT ![r] =
                IF ok THEN PtyResize(RequestedSize(r)[1], RequestedSize(r)[2]) ELSE @]
        /\ parser_size' = [parser_size EXCEPT ![r] =
                IF ok THEN ParserSetSize(RequestedSize(r)[2], RequestedSize(r)[1]) ELSE @]
        /\ IF ok THEN MapStep(Insert(terminals, p, r), "overwrite", "dropped")
                 ELSE UNCHANGED <<terminals, left, shutdown_rx>>
        /\ startedOk' = [startedOk EXCEPT ![r] = IF ok THEN "ok" ELSE "err"]
    /\ control_event_q' = Tail(control_event_q)
    /\ UNCHANGED <<exitVars, terminals_lock, event_tx_wait, current_attempt, delay, reconnect, skipped, ctlConn, actorEnd, wire, nextReq, startedFrames,
                   closedFrames, terminal_event_q, reaped, exitCode, how,
                   reconnect_delay, paused, output_buffer, taken, out, linkVars,
                   parser_fed, snapshots>>

\* StartTerminal: start_terminal, then terminal_started with its result
MainStartTerminal(p, setup) ==
    /\ StartTerminal(p, setup)
    /\ Enqueue(TerminalStarted(p, setup))
    /\ UNCHANGED <<command_tx_wait, mainPc>>

\* the same with command_tx full: main waits in terminal_started
MainStartTerminalWaits(p, setup) ==
    /\ ctlConn = "up" /\ ~HasRoom(command_q)
    /\ StartTerminal(p, setup)
    /\ command_tx_wait' = <<TerminalStarted(p, setup)>>
    /\ mainPc' = "sending"
    /\ UNCHANGED <<command_q, enqueued>>

\* start_terminal step by step. First the PTY is spawned (p = NoPid: the spawn
\* failed and start_terminal returns Err) and the lock of the map is taken
StartTerminalLock(p) ==
    /\ mainPc = "loop"
    /\ control_event_q # <<>>
    /\ Head(control_event_q).type = "StartTerminal"
    /\ LET r == Head(control_event_q).arg IN
        /\ pid' = [pid EXCEPT ![r] = p]
        /\ child' = [child EXCEPT ![r] = IF p # NoPid THEN "running" ELSE "none"]
        /\ IF p # NoPid
           THEN /\ terminals_lock' = "start_terminal"
                /\ mainPc' = "locked"
                /\ UNCHANGED <<startedOk, command_q, enqueued, control_event_q>>
           ELSE /\ startedOk' = [startedOk EXCEPT ![r] = "err"]
                /\ Enqueue(Command("TerminalStarted", r, 1))
                /\ control_event_q' = Tail(control_event_q)
                /\ UNCHANGED <<terminals_lock, mainPc>>
    /\ UNCHANGED <<chanVars, exitVars, current_attempt, delay, reconnect, skipped, ctlConn, actorEnd,
                   wire, nextReq, startedFrames, closedFrames, terminal_event_q,
                   terminals, left, reconnect_delay, reaped, taskPc, shutdown_rx,
                   exitCode, how, dataVars>>

\* under the lock: the check for the name, the resize, AsyncPty::new (setup is
\* their outcome) and tokio::spawn of the supervising task
StartTerminalSpawn(setup) ==
    /\ mainPc = "locked"
    /\ LET r == Head(control_event_q).arg
           ok == ~ContainsKey(terminals, pid[r]) /\ setup
       IN
        /\ taskPc' = [taskPc EXCEPT ![r] = IF ok THEN "connect" ELSE "none"]
        /\ pty_size' = [pty_size EXCEPT ![r] =
                IF ok THEN PtyResize(RequestedSize(r)[1], RequestedSize(r)[2]) ELSE @]
        /\ parser_size' = [parser_size EXCEPT ![r] =
                IF ok THEN ParserSetSize(RequestedSize(r)[2], RequestedSize(r)[1]) ELSE @]
        /\ IF ok
           THEN /\ mainPc' = "spawned"
                /\ UNCHANGED <<terminals_lock, startedOk, command_q, enqueued, control_event_q>>
           ELSE /\ mainPc' = "loop"
                /\ terminals_lock' = "free"
                /\ startedOk' = [startedOk EXCEPT ![r] = "err"]
                /\ Enqueue(Command("TerminalStarted", r, 1))
                /\ control_event_q' = Tail(control_event_q)
    /\ UNCHANGED <<chanVars, exitVars, current_attempt, delay, reconnect, skipped, ctlConn, actorEnd,
                   wire, nextReq, startedFrames, closedFrames, terminal_event_q,
                   terminals, left, pid, child, reconnect_delay, reaped, shutdown_rx,
                   exitCode, how, paused, output_buffer, taken, out, linkVars,
                   parser_fed, snapshots>>

\* still under the lock the entry is inserted; start_terminal returns Ok, which
\* releases the lock, and main sends TerminalStarted
StartTerminalInsert ==
    /\ mainPc = "spawned"
    /\ LET r == Head(control_event_q).arg IN
        /\ MapStep(Insert(terminals, pid[r], r), "overwrite", "dropped")
        /\ startedOk' = [startedOk EXCEPT ![r] = "ok"]
        /\ Enqueue(Command("TerminalStarted", r, 0))
    /\ terminals_lock' = "free"
    /\ mainPc' = "loop"
    /\ control_event_q' = Tail(control_event_q)
    /\ UNCHANGED <<chanVars, exitVars, current_attempt, delay, reconnect, skipped, ctlConn, actorEnd,
                   wire, nextReq, startedFrames, closedFrames, terminal_event_q,
                   pid, child, reconnect_delay, reaped, taskPc, exitCode, how, dataVars>>

\* CloseTerminal: close_terminal removes the entry and fires its signal
MainCloseTerminal ==
    /\ mainPc = "loop"
    /\ control_event_q # <<>>
    /\ Head(control_event_q).type = "CloseTerminal"
    /\ LET n == Head(control_event_q).arg IN
        IF ContainsKey(terminals, n)
        THEN MapStep(RemoveTerminal(terminals, n), "close", "fired")
        ELSE UNCHANGED <<terminals, left, shutdown_rx>>
    /\ control_event_q' = Tail(control_event_q)
    /\ UNCHANGED <<terminals_lock, chanVars, exitVars, enqueued, current_attempt, delay, reconnect, skipped, mainPc, ctlConn, actorEnd, command_q, wire, nextReq,
                   startedFrames, startedOk, closedFrames, terminal_event_q,
                   pid, reconnect_delay, child, reaped, taskPc, exitCode, how, dataVars>>

\* Disconnected: exit, or wait and reconnect
MainDisconnected ==
    /\ mainPc = "loop"
    /\ control_event_q # <<>>
    /\ Head(control_event_q).type = "Disconnected"
    /\ IF reconnect THEN NextDelayThenWait ELSE ExitNoReconnect("link_lost")
    /\ control_event_q' = Tail(control_event_q)
    /\ UNCHANGED <<chanVars, enqueued, reconnect, skipped, ctlConn, actorEnd, command_q, wire, nextReq, startedFrames,
                   startedOk, closedFrames, mgrVars, termVars, dataVars>>

\* recv returns None: the actor ended without a Disconnected event
MainEventChannelClosed ==
    /\ mainPc = "loop"
    /\ control_event_q = <<>>
    /\ ctlConn = "ended"
    /\ IF reconnect
       THEN mainPc' = "connect" /\ UNCHANGED exitVars
       ELSE BreakMain("channel_closed")
    /\ UNCHANGED <<chanVars, enqueued, current_attempt, delay, reconnect, skipped, ctlConn, actorEnd, control_event_q, command_q, wire, nextReq,
                   startedFrames, startedOk, closedFrames, mgrVars, termVars,
                   dataVars>>

\* TerminalEvent::Exited: terminal_closed, then remove_terminal
\* the TerminalEvent the task of terminal i has sent
EventOf(i) == IF how[i] = "error" THEN "Disconnected" ELSE "Exited"

MainExited ==
    /\ mainPc = "loop"
    /\ terminal_event_q # <<>>
    /\ EventOf(Head(terminal_event_q)) = "Exited"
    /\ LET i == Head(terminal_event_q) IN
        /\ Enqueue(Command("TerminalClosed", i, exitCode[i]))
        /\ MapStep(RemoveTerminal(terminals, pid[i]), "remove", "dropped")
    /\ terminal_event_q' = Tail(terminal_event_q)
    /\ UNCHANGED <<terminals_lock, chanVars, exitVars, current_attempt, delay, reconnect, skipped, mainPc, ctlConn, actorEnd, control_event_q, wire, nextReq,
                   startedFrames, startedOk, closedFrames, pid, reconnect_delay, child, reaped,
                   taskPc, exitCode, how, dataVars>>

\* TerminalEvent::Disconnected: logged, nothing else
MainTerminalDisconnected ==
    /\ mainPc = "loop"
    /\ terminal_event_q # <<>>
    /\ EventOf(Head(terminal_event_q)) = "Disconnected"
    /\ terminal_event_q' = Tail(terminal_event_q)
    /\ UNCHANGED <<ctlVars, terminals, terminals_lock, left, termVars, dataVars>>

\* the same with command_tx full: main waits in terminal_closed, with the
\* entry still in the map
MainExitedWaits ==
    /\ mainPc = "loop"
    /\ terminal_event_q # <<>>
    /\ EventOf(Head(terminal_event_q)) = "Exited"
    /\ ctlConn = "up" /\ ~HasRoom(command_q)
    /\ LET i == Head(terminal_event_q) IN
        command_tx_wait' = <<Command("TerminalClosed", i, exitCode[i])>>
    /\ mainPc' = "sending"
    /\ terminal_event_q' = Tail(terminal_event_q)
    /\ UNCHANGED <<exitVars, enqueued, terminals_lock, event_tx_wait, current_attempt, delay, reconnect, skipped, ctlConn,
                   actorEnd, control_event_q, command_q, wire, nextReq, startedFrames,
                   startedOk, closedFrames, terminals, left, termVars, dataVars>>

\* the send main waits in completes (command_rx has a free slot) or fails (the
\* actor has ended); after terminal_closed comes remove_terminal
MainSendDone ==
    /\ mainPc = "sending"
    /\ HasRoom(command_q) \/ ctlConn # "up"
    /\ LET c == Head(command_tx_wait) IN
        /\ Enqueue(c)
        /\ IF c.type = "TerminalClosed"
           THEN MapStep(RemoveTerminal(terminals, pid[c.arg]), "remove", "dropped")
           ELSE UNCHANGED <<terminals, left, shutdown_rx>>
    /\ command_tx_wait' = <<>>
    /\ mainPc' = "loop"
    /\ UNCHANGED <<exitVars, terminals_lock, event_tx_wait, current_attempt, delay, reconnect, skipped, ctlConn,
                   actorEnd, control_event_q, wire, nextReq, startedFrames, startedOk,
                   closedFrames, terminal_event_q, pid, reconnect_delay, child, reaped,
                   taskPc, exitCode, how, dataVars>>

\* ---- TerminalManager::shutdown_all ---------------------------------------
\* under the lock: the signal of every entry is fired and the map is drained;
\* the join handles of the drained entries are then awaited one by one
ShutdownAllFire ==
    /\ mainPc = "loop"
    /\ mainPc' = "joining"
    /\ MapStep([n \in Pids |-> NoTerm], "shutdown", "fired")
    /\ UNCHANGED <<terminals_lock, chanVars, exitVars, enqueued, current_attempt, delay, reconnect, skipped, ctlConn, actorEnd,
                   control_event_q, command_q, wire, nextReq, startedFrames,
                   startedOk, closedFrames, terminal_event_q, pid,
                   reconnect_delay, child, reaped, taskPc, exitCode, how,
                   dataVars>>

\* a timeout that never elapses
Elapsed_Never(r) == FALSE

\* tokio::time::timeout(2 s, handle): the timer wins only against a task that
\* has not finished
Elapsed(r) == taskPc[r] # "done"

\* the handle of terminal r is awaited: its task has finished (joined) or the
\* 2 s are over (the handle is dropped, the task is left running)
ShutdownAllAwait(r) ==
    /\ mainPc = "joining"
    /\ left[r] = "shutdown"
    /\ \/ taskPc[r] = "done" /\ left' = [left EXCEPT ![r] = "joined"]
       \/ Elapsed(r) /\ left' = [left EXCEPT ![r] = "abandoned"]
    /\ UNCHANGED <<terminals_lock, ctlVars, terminal_event_q, terminals, termVars, dataVars>>

\* every handle has been awaited: shutdown_all returns and its caller exits
ShutdownAllReturn ==
    /\ mainPc = "joining"
    /\ \A r \in Reqs : left[r] # "shutdown"
    /\ mainPc' = "exited"
    /\ UNCHANGED <<chanVars, exitVars, enqueued, current_attempt, delay, reconnect, skipped, ctlConn, actorEnd,
                   control_event_q, command_q, wire, nextReq, startedFrames,
                   startedOk, closedFrames, mgrVars, termVars, dataVars>>

\* ---- PTY child (pty.rs) -------------------------------------------------
\* the child of a live terminal exits, successfully or not
ChildExit(i, status) ==
    /\ Running
    /\ taskPc[i] \notin {"none", "done"}
    /\ child[i] = "running"
    /\ child' = [child EXCEPT ![i] = status]
    /\ UNCHANGED <<ctlVars, mgrVars, pid, reconnect_delay, reaped, taskPc, shutdown_rx, exitCode,
                   how, dataVars>>

\* bridge.rs: let code = if status.success() { 0 } else { 1 }
ExitCodeOf(status) == IF status = "ok" THEN 0 ELSE 1

\* a liveness check that reports every child dead
IsPtyAlive_Never(status) == FALSE

\* Bridge::is_pty_alive: try_wait returns no status
IsPtyAlive(status) == status = "running"

\* ---- supervising task (run_terminal_task) and bridge (Bridge::run) ------
\* a task that reports its end twice
Finish_EventTwice(i, code, why) ==
    /\ taskPc' = [taskPc EXCEPT ![i] = "done"]
    /\ exitCode' = [exitCode EXCEPT ![i] = code]
    /\ how' = [how EXCEPT ![i] = why]
    /\ terminal_event_q' = Append(Append(terminal_event_q, i), i)

\* the task returns Ok(code) and its Exited event is sent upstream
Finish(i, code, why) ==
    /\ taskPc' = [taskPc EXCEPT ![i] = "done"]
    /\ exitCode' = [exitCode EXCEPT ![i] = code]
    /\ how' = [how EXCEPT ![i] = why]
    /\ terminal_event_q' = Append(terminal_event_q, i)

\* run_terminal_task has not entered its loop: reconnect_delay has its first
\* value at a connect only before the first wait
BeforeLoop(i) == taskPc[i] = "connect" /\ reconnect_delay[i] = first_reconnect_delay

\* Bridge::new fails and run_terminal_task returns its error: the task sends
\* TerminalEvent::Disconnected and ends
TaskBridgeNewFails(i) ==
    /\ Running
    /\ BeforeLoop(i)
    /\ taskPc' = [taskPc EXCEPT ![i] = "done"]
    /\ how' = [how EXCEPT ![i] = "error"]
    /\ terminal_event_q' = Append(terminal_event_q, i)
    /\ UNCHANGED <<ctlVars, terminals, terminals_lock, left, pid, reconnect_delay, child,
                   reaped, shutdown_rx, exitCode, dataVars>>

\* try_wait at the end of a loop iteration of Bridge::run: where the bridge is next
AfterPoll(i) == IF child[i] = "running" THEN "run" ELSE "exitPolled"

\* the bridge of terminal i is in a run: it owns relay_tx and relay_rx
InRun(i) == taskPc[i] \in {"run", "exitPolled", "blocked"}

\* relay_tx has a free slot
Room(i) == Len(relay_tx_q[i]) < MaxCap

\* a connect that spawns both halves without writing the handshake first
TaskConnect_NoHandshake(i, ok) ==
    /\ Running
    /\ taskPc[i] = "connect"
    /\ taskPc' = [taskPc EXCEPT ![i] = IF ok THEN "run" ELSE "check"]
    /\ reconnect_delay' = [reconnect_delay EXCEPT
            ![i] = IF ok THEN first_reconnect_delay ELSE @]
    /\ output_buffer' = [output_buffer EXCEPT ![i] = <<>>]
    /\ IF ok
       THEN /\ socket' = [socket EXCEPT ![i] = <<>>]
            /\ relay_tx_q' = [relay_tx_q EXCEPT ![i] = <<>>]
            /\ relay_rx_q' = [relay_rx_q EXCEPT ![i] = <<>>]
            /\ sendTask' = [sendTask EXCEPT ![i] = "up"]
            /\ recvTask' = [recvTask EXCEPT ![i] = "up"]
            /\ skippedData' = [skippedData EXCEPT ![i] = 0]
       ELSE UNCHANGED <<socket, relay_tx_q, relay_rx_q, sendTask, recvTask,
                        skippedData>>
    /\ UNCHANGED <<ctlVars, mgrVars, pid, child, reaped, shutdown_rx, exitCode,
                   how, paused, screenVars, taken, out, received, lastData, pending>>

\* RelayConnection::connect succeeds (the handshake is written, both halves
\* are spawned, a new run starts with an empty output_buffer) or fails
TaskConnect(i, ok) ==
    /\ Running
    /\ taskPc[i] = "connect"
    /\ taskPc' = [taskPc EXCEPT ![i] = IF ok THEN "run" ELSE "check"]
    /\ reconnect_delay' = [reconnect_delay EXCEPT
            ![i] = IF ok THEN first_reconnect_delay ELSE @]
    /\ output_buffer' = [output_buffer EXCEPT ![i] = <<>>]
    /\ IF ok
       THEN /\ socket' = [socket EXCEPT ![i] = <<HandshakeFrame>>]
            /\ relay_tx_q' = [relay_tx_q EXCEPT ![i] = <<>>]
            /\ relay_rx_q' = [relay_rx_q EXCEPT ![i] = <<>>]
            /\ sendTask' = [sendTask EXCEPT ![i] = "up"]
            /\ recvTask' = [recvTask EXCEPT ![i] = "up"]
            /\ skippedData' = [skippedData EXCEPT ![i] = 0]
       ELSE UNCHANGED <<socket, relay_tx_q, relay_rx_q, sendTask, recvTask,
                        skippedData>>
    /\ UNCHANGED <<ctlVars, mgrVars, pid, child, reaped, shutdown_rx, exitCode,
                   how, paused, screenVars, taken, out, received, lastData, pending>>

\* select, first run: the shutdown signal wins against the bridge run, which is
\* dropped wherever it is, also while it waits for a free slot in relay_tx
TaskShutdownInRun(i) ==
    /\ Running
    /\ InRun(i)
    /\ shutdown_rx[i] # "pending"
    /\ Finish(i, 0, "shutdown")
    /\ output_buffer' = [output_buffer EXCEPT ![i] = <<>>]
    /\ relay_rx_q' = [relay_rx_q EXCEPT ![i] = <<>>]
    /\ pending' = [pending EXCEPT ![i] = <<>>]
    /\ UNCHANGED <<terminals_lock, ctlVars, terminals, left, pid, reconnect_delay, child, reaped, shutdown_rx,
                   paused, screenVars, taken, out, socket, relay_tx_q, sendTask, recvTask,
                   received, lastData, skippedData>>

\* a bridge that never buffers
Buffering_Never(i) == FALSE

\* bridge.rs: if self.paused
Buffering(i) == paused[i]

\* pty_rx yields a chunk: buffered while paused, else sent as Output
\* (sent = FALSE: relay_tx.send failed and the run returns Ok(None)); the send
\* waits while relay_tx is full
BridgeChunk(i, sent) ==
    /\ Running
    /\ taskPc[i] = "run"
    /\ taken[i] < MaxChunks
    /\ Buffering(i) \/ sent = (sendTask[i] = "up")
    /\ taken' = [taken EXCEPT ![i] = @ + 1]
    /\ parser_fed' = [parser_fed EXCEPT ![i] = ParserProcess(@, taken[i] + 1)]
    /\ IF Buffering(i)
       THEN /\ output_buffer' = [output_buffer EXCEPT ![i] = Append(@, taken[i] + 1)]
            /\ taskPc' = [taskPc EXCEPT ![i] = AfterPoll(i)]
            /\ UNCHANGED <<out, relay_tx_q, relay_rx_q, pending>>
       ELSE IF sent /\ Room(i)
       THEN /\ out' = [out EXCEPT ![i] = Append(@, taken[i] + 1)]
            /\ relay_tx_q' = [relay_tx_q EXCEPT ![i] = Append(@, taken[i] + 1)]
            /\ taskPc' = [taskPc EXCEPT ![i] = AfterPoll(i)]
            /\ UNCHANGED <<output_buffer, relay_rx_q, pending>>
       ELSE IF sent
       THEN /\ pending' = [pending EXCEPT ![i] = <<taken[i] + 1>>]
            /\ taskPc' = [taskPc EXCEPT ![i] = "blocked"]
            /\ UNCHANGED <<out, output_buffer, relay_tx_q, relay_rx_q>>
       ELSE /\ output_buffer' = [output_buffer EXCEPT ![i] = <<>>]
            /\ relay_rx_q' = [relay_rx_q EXCEPT ![i] = <<>>]
            /\ taskPc' = [taskPc EXCEPT ![i] = "check"]
            /\ UNCHANGED <<out, relay_tx_q, pending>>
    /\ reaped' = [reaped EXCEPT ![i] = taskPc'[i] = "exitPolled"]
    /\ UNCHANGED <<ctlVars, mgrVars, pid, reconnect_delay, child, shutdown_rx, exitCode, how,
                   paused, pty_size, parser_size, snapshots, socket, sendTask,
                   recvTask, received, lastData, skippedData>>

\* relay_tx has a free slot again and the waiting send completes, or the
\* outbound half has ended and it fails (sent = FALSE: the run returns Ok(None))
BridgeUnblock(i, sent) ==
    /\ Running
    /\ taskPc[i] = "blocked"
    /\ sent = (sendTask[i] = "up")
    /\ IF sent
       THEN /\ Room(i)
            /\ out' = [out EXCEPT ![i] = Append(@, Head(pending[i]))]
            /\ relay_tx_q' = [relay_tx_q EXCEPT ![i] = Append(@, Head(pending[i]))]
            /\ pending' = [pending EXCEPT ![i] = Tail(@)]
            /\ taskPc' = [taskPc EXCEPT ![i] =
                    IF Tail(pending[i]) = <<>> THEN AfterPoll(i) ELSE "blocked"]
            /\ UNCHANGED <<output_buffer, relay_rx_q>>
       ELSE /\ pending' = [pending EXCEPT ![i] = <<>>]
            /\ output_buffer' = [output_buffer EXCEPT ![i] = <<>>]
            /\ relay_rx_q' = [relay_rx_q EXCEPT ![i] = <<>>]
            /\ taskPc' = [taskPc EXCEPT ![i] = "check"]
            /\ UNCHANGED <<out, relay_tx_q>>
    /\ reaped' = [reaped EXCEPT ![i] = taskPc'[i] = "exitPolled"]
    /\ UNCHANGED <<ctlVars, mgrVars, pid, reconnect_delay, child, shutdown_rx, exitCode, how,
                   paused, screenVars, taken, socket, sendTask, recvTask, received, lastData, skippedData>>

\* pty_rx is closed (the reader saw EOF after the child exited): break, Ok(None)
BridgeReaderClosed(i) ==
    /\ Running
    /\ taskPc[i] = "run"
    /\ child[i] # "running"
    /\ taskPc' = [taskPc EXCEPT ![i] = "check"]
    /\ output_buffer' = [output_buffer EXCEPT ![i] = <<>>]
    /\ relay_rx_q' = [relay_rx_q EXCEPT ![i] = <<>>]
    /\ UNCHANGED <<ctlVars, mgrVars, pid, reconnect_delay, child, reaped, shutdown_rx, exitCode,
                   how, paused, screenVars, taken, out, socket, relay_tx_q, sendTask,
                   recvTask, received, lastData, skippedData, pending>>

\* the frames the handler of a relay message sends
ToSend(i, msg) ==
    IF msg = "Resume" THEN output_buffer[i]
    ELSE IF msg = "RequestSnapshot" THEN <<SnapshotFrame>>
    ELSE <<>>

\* relay_rx yields msg. Resume sends the chunks of output_buffer and
\* RequestSnapshot a Snapshot: k of these frames are enqueued at once; with the
\* outbound half ended the first send fails and the run returns Ok(None), with
\* relay_tx full the bridge waits to send the rest
BridgeRelayMessage(i, msg, k) ==
    /\ Running
    /\ taskPc[i] = "run"
    /\ relay_rx_q[i] # <<>> /\ msg = Head(relay_rx_q[i])
    /\ LET frames == ToSend(i, msg)
           up == sendTask[i] = "up"
           failed == frames # <<>> /\ ~up
       IN
        /\ k = IF up THEN Min(Len(frames), MaxCap - Len(relay_tx_q[i])) ELSE 0
        /\ paused' = [paused EXCEPT ![i] = IF msg = "Pause" THEN TRUE
                                          ELSE IF msg = "Resume" THEN FALSE ELSE @]
        /\ out' = [out EXCEPT ![i] = @ \o SubSeq(frames, 1, k)]
        /\ relay_tx_q' = [relay_tx_q EXCEPT ![i] = @ \o SubSeq(frames, 1, k)]
        /\ output_buffer' = [output_buffer EXCEPT ![i] =
                                IF msg = "Resume" \/ failed THEN <<>> ELSE @]
        /\ pending' = [pending EXCEPT ![i] =
                                IF up THEN SubSeq(frames, k + 1, Len(frames)) ELSE <<>>]
        /\ relay_rx_q' = [relay_rx_q EXCEPT ![i] = IF failed THEN <<>> ELSE Tail(@)]
        /\ taskPc' = [taskPc EXCEPT ![i] =
                        IF failed THEN "check"
                        ELSE IF k < Len(frames) THEN "blocked" ELSE AfterPoll(i)]
    /\ IF msg = "Resize"
       THEN \E size \in ResizeSizes, ok \in BOOLEAN :
                /\ pty_size' = [pty_size EXCEPT
                        ![i] = IF ok THEN PtyResize(size[1], size[2]) ELSE @]
                /\ parser_size' = [parser_size EXCEPT
                        ![i] = ParserSetSize(size[2], size[1])]
       ELSE UNCHANGED <<pty_size, parser_size>>
    /\ IF msg = "RequestSnapshot"
       THEN \E id \in SnapshotIds :
                snapshots' = [snapshots EXCEPT ![i] = Append(@, CreateSnapshot(i, id))]
       ELSE UNCHANGED snapshots
    /\ UNCHANGED parser_fed
    /\ reaped' = [reaped EXCEPT ![i] = taskPc'[i] = "exitPolled"]
    /\ UNCHANGED <<ctlVars, mgrVars, pid, reconnect_delay, child, shutdown_rx, exitCode, how,
                   taken, socket, sendTask, recvTask, received, lastData, skippedData>>

\* relay_rx is closed (the inbound half has ended): the run returns Ok(None)
BridgeRelayClosed(i) ==
    /\ Running
    /\ taskPc[i] = "run"
    /\ relay_rx_q[i] = <<>> /\ recvTask[i] = "ended"
    /\ taskPc' = [taskPc EXCEPT ![i] = "check"]
    /\ output_buffer' = [output_buffer EXCEPT ![i] = <<>>]
    /\ UNCHANGED <<ctlVars, mgrVars, pid, reconnect_delay, child, reaped, shutdown_rx, exitCode,
                   how, paused, screenVars, taken, out, linkVars>>

\* a bridge that enqueues Exit and goes on with its loop
BridgeSendExit_NoReturn(i, sent) ==
    /\ Running
    /\ taskPc[i] = "exitPolled"
    /\ sent = (sendTask[i] = "up")
    /\ sent => Room(i)
    /\ out' = [out EXCEPT ![i] = IF sent THEN Append(@, ExitFrame) ELSE @]
    /\ relay_tx_q' = [relay_tx_q EXCEPT ![i] = IF sent THEN Append(@, ExitFrame) ELSE @]
    /\ taskPc' = [taskPc EXCEPT ![i] = "run"]
    /\ UNCHANGED <<ctlVars, mgrVars, pid, reconnect_delay, child, reaped, shutdown_rx, exitCode,
                   how, paused, screenVars, output_buffer, taken, socket, sendTask,
                   relay_rx_q, recvTask, received, lastData, skippedData, pending>>

\* try_wait returned the status: Exit is enqueued best-effort (sent = FALSE: the
\* send failed), waiting for a free slot of relay_tx; then the run returns
\* Ok(Some(code)) and the task Ok(code)
BridgeSendExit(i, sent) ==
    /\ Running
    /\ taskPc[i] = "exitPolled"
    /\ sent = (sendTask[i] = "up")
    /\ sent => Room(i)
    /\ out' = [out EXCEPT ![i] = IF sent THEN Append(@, ExitFrame) ELSE @]
    /\ relay_tx_q' = [relay_tx_q EXCEPT ![i] = IF sent THEN Append(@, ExitFrame) ELSE @]
    /\ Finish(i, ExitCodeOf(child[i]), "child")
    /\ output_buffer' = [output_buffer EXCEPT ![i] = <<>>]
    /\ relay_rx_q' = [relay_rx_q EXCEPT ![i] = <<>>]
    /\ UNCHANGED <<terminals_lock, ctlVars, terminals, left, pid, reconnect_delay, child, reaped, shutdown_rx,
                   paused, screenVars, taken, socket, sendTask, recvTask, received, lastData, skippedData, pending>>

\* ---- data connection (relay.rs, protocol.rs) ----------------------------
\* a frame of the relay is <<>> or <<tag, payload>>: tag 0..4 for the prefix
\* bytes '0'..'4' (5: any other byte), payload "valid" iff it is the JSON the
\* tag asks for
Tags == 0..5
DataFrames ==
    {<<>>} \cup {<<t, "valid">> : t \in Tags} \cup {<<1, "invalid">>, <<4, "invalid">>}

\* a parser that takes every unknown prefix for Input
RelayMessageParse_Lenient(data) ==
    IF data = <<>> THEN "Err"
    ELSE IF data[1] = 1 THEN (IF data[2] = "valid" THEN "Resize" ELSE "Err")
    ELSE IF data[1] = 2 THEN "Pause"
    ELSE IF data[1] = 3 THEN "Resume"
    ELSE IF data[1] = 4 THEN (IF data[2] = "valid" THEN "RequestSnapshot" ELSE "Err")
    ELSE "Input"

\* RelayMessage::parse
RelayMessageParse(data) ==
    IF data = <<>> THEN "Err"
    ELSE IF data[1] = 0 THEN "Input"
    ELSE IF data[1] = 1 THEN (IF data[2] = "valid" THEN "Resize" ELSE "Err")
    ELSE IF data[1] = 2 THEN "Pause"
    ELSE IF data[1] = 3 THEN "Resume"
    ELSE IF data[1] = 4 THEN (IF data[2] = "valid" THEN "RequestSnapshot" ELSE "Err")
    ELSE "Err"

\* outbound half: a frame of the queue is encoded and written on the socket
SendTaskWrite(i) ==
    /\ Running
    /\ sendTask[i] = "up"
    /\ relay_tx_q[i] # <<>>
    /\ socket' = [socket EXCEPT ![i] = Append(@, Head(relay_tx_q[i]))]
    /\ relay_tx_q' = [relay_tx_q EXCEPT ![i] = Tail(@)]
    /\ UNCHANGED <<ctlVars, mgrVars, termVars, paused, screenVars, output_buffer, taken, out,
                   sendTask, relay_rx_q, recvTask, received, pending, lastData, skippedData>>

\* outbound half: ws_sink.send fails, the loop breaks and the queue is dropped
\* with what it holds (the close frame after the loop fails too)
SendTaskFails(i) ==
    /\ Running
    /\ sendTask[i] = "up"
    /\ relay_tx_q[i] # <<>>
    /\ sendTask' = [sendTask EXCEPT ![i] = "ended"]
    /\ relay_tx_q' = [relay_tx_q EXCEPT ![i] = <<>>]
    /\ UNCHANGED <<ctlVars, mgrVars, termVars, paused, screenVars, output_buffer, taken, out,
                   socket, relay_rx_q, recvTask, received, pending, lastData, skippedData>>

\* an outbound half that closes as soon as its owner has dropped relay_tx,
\* with the frames still queued unwritten
SendTaskClose_Early(i, written) ==
    /\ Running
    /\ sendTask[i] = "up"
    /\ ~InRun(i)
    /\ socket' = [socket EXCEPT ![i] = IF written THEN Append(@, CloseFrame) ELSE @]
    /\ sendTask' = [sendTask EXCEPT ![i] = "ended"]
    /\ relay_tx_q' = [relay_tx_q EXCEPT ![i] = <<>>]
    /\ UNCHANGED <<ctlVars, mgrVars, termVars, paused, screenVars, output_buffer, taken, out,
                   relay_rx_q, recvTask, received, pending, lastData, skippedData>>

\* outbound half: the bridge run has dropped relay_tx and the queue is empty:
\* the close frame is sent best-effort (written = FALSE: it failed), the task ends
SendTaskClose(i, written) ==
    /\ Running
    /\ sendTask[i] = "up"
    /\ relay_tx_q[i] = <<>>
    /\ ~InRun(i)
    /\ socket' = [socket EXCEPT ![i] = IF written THEN Append(@, CloseFrame) ELSE @]
    /\ sendTask' = [sendTask EXCEPT ![i] = "ended"]
    /\ UNCHANGED <<ctlVars, mgrVars, termVars, paused, screenVars, output_buffer, taken, out,
                   relay_tx_q, relay_rx_q, recvTask, received, pending, lastData, skippedData>>

\* inbound half: a binary frame is read and parsed. A frame that does not parse
\* is logged and skipped; a message is sent to the bridge, which waits while
\* relay_rx is full and fails, ending the task, once the run has dropped relay_rx
RecvTaskFrame(i, data) ==
    /\ Running
    /\ recvTask[i] = "up"
    /\ received[i] < MaxFrames
    /\ received' = [received EXCEPT ![i] = @ + 1]
    /\ lastData' = [lastData EXCEPT ![i] = data]
    /\ LET msg == RelayMessageParse(data) IN
        IF msg = "Err"
        THEN /\ skippedData' = [skippedData EXCEPT ![i] = @ + 1]
             /\ UNCHANGED <<relay_rx_q, recvTask>>
        ELSE IF InRun(i)
        THEN /\ Len(relay_rx_q[i]) < MaxCap
             /\ relay_rx_q' = [relay_rx_q EXCEPT ![i] = Append(@, msg)]
             /\ UNCHANGED <<recvTask, skippedData>>
        ELSE /\ recvTask' = [recvTask EXCEPT ![i] = "ended"]
             /\ UNCHANGED <<relay_rx_q, skippedData>>
    /\ UNCHANGED <<ctlVars, mgrVars, termVars, paused, screenVars, output_buffer, taken, out,
                   socket, relay_tx_q, sendTask, pending>>

\* inbound half: a close frame, a socket error or the end of the stream
RecvTaskEnds(i) ==
    /\ Running
    /\ recvTask[i] = "up"
    /\ recvTask' = [recvTask EXCEPT ![i] = "ended"]
    /\ UNCHANGED <<ctlVars, mgrVars, termVars, paused, screenVars, output_buffer, taken, out,
                   socket, relay_tx_q, sendTask, relay_rx_q, received, pending,
                   lastData, skippedData>>

\* after a lost or failed connection: is_pty_alive, then Ok(1) or the sleep
TaskCheckPty(i) ==
    /\ Running
    /\ taskPc[i] = "check"
    /\ IF IsPtyAlive(child[i])
       THEN /\ taskPc' = [taskPc EXCEPT ![i] = "sleep"]
            /\ UNCHANGED <<exitCode, how, terminal_event_q, reaped>>
       ELSE /\ Finish(i, 1, "child")
            /\ reaped' = [reaped EXCEPT ![i] = child[i] # "running"]
    /\ UNCHANGED <<terminals_lock, ctlVars, terminals, left, pid, reconnect_delay, child, shutdown_rx, dataVars>>

\* a doubling without the cap
NextReconnectDelay_NoCap(d) == d * 2

\* std::cmp::min(reconnect_delay * 2, max_reconnect_delay)
NextReconnectDelay(d) == Min(d * 2, max_reconnect_delay)

\* the reconnect sleep ends: the delay is doubled, next connection attempt
TaskSleepDone(i) ==
    /\ Running
    /\ taskPc[i] = "sleep"
    /\ taskPc' = [taskPc EXCEPT ![i] = "connect"]
    /\ reconnect_delay' = [reconnect_delay EXCEPT ![i] = NextReconnectDelay(@)]
    /\ UNCHANGED <<ctlVars, mgrVars, pid, child, reaped, shutdown_rx, exitCode,
                   how, dataVars>>

\* select, second one: the shutdown signal ends the reconnect sleep
TaskShutdownInSleep(i) ==
    /\ Running
    /\ taskPc[i] = "sleep"
    /\ shutdown_rx[i] # "pending"
    /\ Finish(i, 0, "shutdown")
    /\ UNCHANGED <<ctlVars, terminals, terminals_lock, left, pid, reconnect_delay, child, reaped, shutdown_rx,
                   dataVars>>

\* ---- specifications ----------------------------------------------------
\* the task of terminal i has not yet slept up to a reconnect_delay of cap
TaskRetry(i, cap) == reconnect_delay[i] < cap

\* the children and the supervising tasks, with the exits of a bridge run
TaskNext ==
    \/ \E i \in Reqs, status \in {"ok", "fail"} : ChildExit(i, status)
    \/ \E i \in Reqs, ok \in BOOLEAN :
            (ok \/ TaskRetry(i, MaxTaskDelay)) /\ TaskConnect(i, ok)
    \/ \E i \in Reqs : TaskShutdownInRun(i)
    \/ \E i \in Reqs : BridgeReaderClosed(i)
    \/ \E i \in Reqs : BridgeRelayClosed(i)
    \/ \E i \in Reqs, sent \in BOOLEAN : BridgeSendExit(i, sent)
    \/ \E i \in Reqs : TaskCheckPty(i)
    \/ \E i \in Reqs : TaskSleepDone(i)
    \/ \E i \in Reqs : TaskShutdownInSleep(i)

\* the frames that reach the emulator: a Resize and a SnapshotRequest
ScreenFrames == {<<1, "valid">>, <<4, "valid">>}

\* the two halves of the data connection of terminal i, and the bridge steps
\* that take from and put into their channels; the relay sends every frame
\* but those of ScreenFrames
LinkNext(i) ==
    \/ \E sent \in BOOLEAN : BridgeChunk(i, sent)
    \/ \E sent \in BOOLEAN : BridgeUnblock(i, sent)
    \/ \E msg \in {"Input", "Pause", "Resume"},
          k \in 0..MaxChunks : BridgeRelayMessage(i, msg, k)
    \/ SendTaskWrite(i)
    \/ SendTaskFails(i)
    \/ \E written \in BOOLEAN : SendTaskClose(i, written)
    \/ \E data \in DataFrames \ ScreenFrames : RecvTaskFrame(i, data)
    \/ RecvTaskEnds(i)

\* the same with a relay that sends Input, Pause, Resize and SnapshotRequest
\* frames
ScreenLinkNext(i) ==
    \/ \E sent \in BOOLEAN : BridgeChunk(i, sent)
    \/ \E sent \in BOOLEAN : BridgeUnblock(i, sent)
    \/ \E msg \in {"Input", "Pause", "Resize", "RequestSnapshot"}, k \in 0..1 :
            BridgeRelayMessage(i, msg, k)
    \/ SendTaskWrite(i)
    \/ SendTaskFails(i)
    \/ \E data \in ScreenFrames \cup {<<0, "valid">>, <<2, "valid">>} :
            RecvTaskFrame(i, data)
    \/ RecvTaskEnds(i)

\* of the data path only what a bridge run needs to come to its poll of the
\* child and to see its connection end: Input frames and the end of the stream
InputOnly(i) ==
    \/ RecvTaskFrame(i, <<0, "valid">>)
    \/ RecvTaskEnds(i)
    \/ BridgeRelayMessage(i, "Input", 0)

\* Spec: the whole agent hosting one terminal: the relay sends one StartTerminal
StartOnce == nextReq = 1 /\ ActorRecvStart

Next ==
    \/ StartOnce
    \/ \E n \in Pids : ActorRecvClose(n)
    \/ \E cause \in {"close", "error", "eof"} : ActorDisconnected(cause)
    \/ ActorWrite
    \/ ActorWriteFails
    \/ \E text \in {"start_terminal", "close_terminal", "ping", "not json"} :
            ActorRecvMalformed(text)
    \/ \E ok \in BOOLEAN : (ok \/ Retry(MaxRetries)) /\ MainConnect(ok)
    \/ MainBackoffDone
    \/ MainCtrlC
    \/ \E p \in FreePids \cup {NoPid}, setup \in BOOLEAN : MainStartTerminal(p, setup)
    \/ MainCloseTerminal
    \/ Retry(MaxRetries) /\ MainDisconnected
    \/ MainEventChannelClosed
    \/ MainExited
    \/ TaskNext
    \/ InputOnly(1)

Spec == Init /\ [][Next]_vars

\* MgrSpec: the manager with several terminals, whose names the operating
\* system may hand out again, on a control link that stays up; the data
\* connections carry no frame: a child that exits is found by the liveness
\* check after its reader has closed
MgrInit == Init /\ reconnect

MgrTaskNext ==
    \/ \E i \in Reqs, status \in {"ok", "fail"} : ChildExit(i, status)
    \/ \E i \in Reqs, ok \in BOOLEAN :
            (ok \/ TaskRetry(i, MaxTaskDelay)) /\ TaskConnect(i, ok)
    \/ \E i \in Reqs : TaskShutdownInRun(i)
    \/ \E i \in Reqs : BridgeReaderClosed(i)
    \/ \E i \in Reqs : TaskCheckPty(i)
    \/ \E i \in Reqs : TaskSleepDone(i)
    \/ \E i \in Reqs : TaskShutdownInSleep(i)

MgrNext ==
    \/ ActorRecvStart
    \/ \E n \in Pids : ActorRecvClose(n)
    \/ ActorWrite
    \/ MainConnect(TRUE)
    \/ \E p \in FreePids \cup {NoPid}, setup \in BOOLEAN : MainStartTerminal(p, setup)
    \/ MainCloseTerminal
    \/ MainExited
    \/ MgrTaskNext

MgrSpec == MgrInit /\ [][MgrNext]_vars

\* LinkSpec: one terminal and its data connections, with both halves, their
\* channels and the frames of the relay, on a control link that stays up and
\* on which the commands of the main loop stay queued
LinkNext1 ==
    \/ StartOnce
    \/ ActorRecvClose(1)
    \/ \E text \in {"start_terminal", "close_terminal", "ping", "not json"} :
            ActorRecvMalformed(text)
    \/ MainConnect(TRUE)
    \/ MainStartTerminal(1, TRUE)
    \/ MainCloseTerminal
    \/ MainExited
    \/ TaskNext
    \/ LinkNext(1)

LinkSpec == MgrInit /\ [][LinkNext1]_vars

\* ScreenSpec: one terminal, its PTY window and its emulator, on a control
\* link that stays up
ScreenNext ==
    \/ StartOnce
    \/ MainConnect(TRUE)
    \/ MainStartTerminal(1, TRUE)
    \/ MainExited
    \/ \E status \in {"ok", "fail"} : ChildExit(1, status)
    \/ TaskConnect(1, TRUE)
    \/ BridgeReaderClosed(1)
    \/ BridgeRelayClosed(1)
    \/ BridgeSendExit(1, TRUE)
    \/ TaskCheckPty(1)
    \/ TaskSleepDone(1)
    \/ ScreenLinkNext(1)

ScreenSpec == MgrInit /\ [][ScreenNext]_vars

\* RetrySpec: one terminal whose task connects, loses its data connection
\* and fails to connect any number of times, on a control link that stays up
RetryNext ==
    \/ StartOnce
    \/ ActorRecvClose(1)
    \/ ActorWrite
    \/ MainConnect(TRUE)
    \/ MainStartTerminal(1, TRUE)
    \/ MainCloseTerminal
    \/ MainExited
    \/ \E status \in {"ok", "fail"} : ChildExit(1, status)
    \/ \E ok \in BOOLEAN : TaskConnect(1, ok)
    \/ TaskShutdownInRun(1)
    \/ BridgeReaderClosed(1)
    \/ RecvTaskEnds(1)
    \/ BridgeRelayClosed(1)
    \/ TaskCheckPty(1)
    \/ TaskSleepDone(1)
    \/ TaskShutdownInSleep(1)

RetrySpec == MgrInit /\ [][RetryNext]_vars

\* ShutdownSpec: the manager with several terminals on a control link that
\* stays up, and a caller that invokes shutdown_all from the main loop. The
\* timer of the timeout fires and the caller is scheduled (weak fairness);
\* nothing is assumed about the supervising tasks.
ShutdownAllStep ==
    \/ \E r \in Reqs : ShutdownAllAwait(r)
    \/ ShutdownAllReturn

ShutdownNext ==
    \/ ActorRecvStart
    \/ MainConnect(TRUE)
    \/ \E p \in FreePids : MainStartTerminal(p, TRUE)
    \/ MainExited
    \/ ShutdownAllFire
    \/ ShutdownAllStep
    \/ MgrTaskNext

ShutdownSpec == MgrInit /\ [][ShutdownNext]_vars /\ WF_vars(ShutdownAllStep)

\* PollSpec: one terminal in a bridge run on connections that stay up, with
\* no shutdown request. The runtime schedules every task that can take a step
\* (weak fairness on the steps of the agent); nothing is assumed about the
\* relay, the child or the PTY: a chunk, a frame or the end of the reader may
\* never come
PollAgentStep ==
    \/ MainConnect(TRUE)
    \/ MainStartTerminal(1, TRUE)
    \/ MainExited
    \/ TaskConnect(1, TRUE)
    \/ \E msg \in {"Input", "Pause", "Resume"}, k \in 0..MaxChunks :
            BridgeRelayMessage(1, msg, k)
    \/ BridgeUnblock(1, TRUE)
    \/ BridgeSendExit(1, TRUE)
    \/ TaskCheckPty(1)
    \/ SendTaskWrite(1)

PollNext ==
    \/ StartOnce
    \/ \E status \in {"ok", "fail"} : ChildExit(1, status)
    \/ BridgeChunk(1, TRUE)
    \/ BridgeReaderClosed(1)
    \/ \E data \in {<<0, "valid">>, <<2, "valid">>, <<3, "valid">>} :
            RecvTaskFrame(1, data)
    \/ PollAgentStep

PollSpec == MgrInit /\ [][PollNext]_vars /\ WF_vars(PollAgentStep)

\* ChanSpec: the channels between the tasks at their capacity: a relay that
\* sends on while event_tx is full, an actor and a main loop that wait in their
\* sends, supervising tasks that wait to report, and the data link of
\* terminal 1. A step that sends is taken at once where the channel has a free
\* slot, and leaves the sender waiting where it has none
ChanTaskNext ==
    \/ \E i \in Reqs : ChildExit(i, "fail")
    \/ \E i \in Reqs : TaskConnect(i, TRUE)
    \/ \E i \in Reqs : HasRoom(terminal_event_q) /\ TaskShutdownInRun(i)
    \/ \E i \in Reqs : BridgeReaderClosed(i)
    \/ \E i \in Reqs : HasRoom(terminal_event_q) /\ TaskCheckPty(i)
    \/ HasRoom(terminal_event_q) /\ BridgeSendExit(1, TRUE)
    \/ BridgeChunk(1, TRUE)
    \/ BridgeUnblock(1, TRUE)
    \/ BridgeRelayMessage(1, "Input", 0)
    \/ SendTaskWrite(1)
    \/ RecvTaskFrame(1, <<0, "valid">>)

\* the PID of the child is the id of the request
IsNext(p) == control_event_q # <<>> /\ Head(control_event_q).arg = p

ChanNext ==
    \/ HasRoom(control_event_q) /\ ActorRecvStart
    \/ HasRoom(control_event_q) /\ ActorRecvClose(1)
    \/ \E n \in {1, NoPid} : ActorRecvWaits(n)
    \/ ActorSendDone
    \/ ActorWrite
    \/ MainConnect(TRUE)
    \/ \E p \in FreePids :
            HasRoom(command_q) /\ IsNext(p) /\ MainStartTerminal(p, TRUE)
    \/ \E p \in FreePids : IsNext(p) /\ MainStartTerminalWaits(p, TRUE)
    \/ MainCloseTerminal
    \/ HasRoom(command_q) /\ MainExited
    \/ MainExitedWaits
    \/ MainSendDone
    \/ ChanTaskNext

ChanSpec == MgrInit /\ [][ChanNext]_vars

\* StartSpec: the manager with start_terminal taken step by step, so that the
\* task it spawns runs while start_terminal has not yet returned, and a caller
\* that invokes shutdown_all from the main loop
StartNext ==
    \/ ActorRecvStart
    \/ \E n \in Pids : ActorRecvClose(n)
    \/ ActorWrite
    \/ MainConnect(TRUE)
    \/ \E p \in FreePids \cup {NoPid} : StartTerminalLock(p)
    \/ \E setup \in BOOLEAN : StartTerminalSpawn(setup)
    \/ StartTerminalInsert
    \/ MainCloseTerminal
    \/ MainExited
    \/ ShutdownAllFire
    \/ ShutdownAllStep
    \/ \E i \in Reqs : ChildExit(i, "fail")
    \/ \E i \in Reqs : TaskConnect(i, TRUE)
    \/ \E i \in Reqs : TaskShutdownInRun(i)
    \/ \E i \in Reqs : BridgeReaderClosed(i)
    \/ \E i \in Reqs : TaskCheckPty(i)

StartSpec == MgrInit /\ [][StartNext]_vars

\* ReapSpec: the manager with every way a supervising task can end and a main
\* loop whose select! takes a terminal event that is ready
ReapNext ==
    \/ ActorRecvStart
    \/ \E n \in Pids : ActorRecvClose(n)
    \/ ActorWrite
    \/ MainConnect(TRUE)
    \/ \E p \in FreePids : MainStartTerminal(p, TRUE)
    \/ MainCloseTerminal
    \/ MainExited
    \/ MainTerminalDisconnected
    \/ \E i \in Reqs : TaskBridgeNewFails(i)
    \/ \E i \in Reqs : ChildExit(i, "fail")
    \/ \E i \in Reqs, ok \in BOOLEAN :
            (ok \/ (i = 1 /\ TaskRetry(i, MaxTaskDelay))) /\ TaskConnect(i, ok)
    \/ \E i \in Reqs : TaskShutdownInRun(i)
    \/ RecvTaskEnds(1)
    \/ BridgeRelayClosed(1)
    \/ \E i \in Reqs : TaskCheckPty(i)
    \/ TaskSleepDone(1)
    \/ TaskShutdownInSleep(1)

ReapSpec ==
    MgrInit /\ [][ReapNext]_vars /\ WF_vars(MainExited) /\ WF_vars(MainTerminalDisconnected)

\* CtlSpec: the control connection with an owner that may call shutdown from
\* the main loop, and the one terminal whose commands it carries
CtlNext ==
    \/ StartOnce
    \/ ActorRecvClose(1)
    \/ \E cause \in {"close", "error", "eof"} : ActorDisconnected(cause)
    \/ ActorWrite
    \/ ActorWriteFails
    \/ \E written \in BOOLEAN : ActorShutdown(written)
    \/ ControlShutdown
    \/ \E ok \in BOOLEAN : (ok \/ Retry(MaxRetries)) /\ MainConnect(ok)
    \/ MainBackoffDone
    \/ \E p \in {1, NoPid} : MainStartTerminal(p, TRUE)
    \/ MainCloseTerminal
    \/ Retry(MaxRetries) /\ MainDisconnected
    \/ MainEventChannelClosed
    \/ MainExited
    \/ \E status \in {"ok", "fail"} : ChildExit(1, status)
    \/ TaskConnect(1, TRUE)
    \/ TaskShutdownInRun(1)
    \/ BridgeReaderClosed(1)
    \/ TaskCheckPty(1)

CtlSpec == MgrInit /\ [][CtlNext]_vars

\* BackoffSpec: the reconnect loop of main alone, against a relay that is
\* down or drops the control connection, with no terminal hosted
BackoffNext ==
    \/ \E ok \in BOOLEAN : (ok \/ Retry(MaxAttempts)) /\ MainConnect(ok)
    \/ MainBackoffDone
    \/ MainCtrlC
    \/ \E cause \in {"close", "error", "eof"} : ActorDisconnected(cause)
    \/ Retry(MaxAttempts) /\ MainDisconnected

BackoffSpec == Init /\ [][BackoffNext]_vars

\* ---- properties --------------------------------------------------------
Spawned(i) == taskPc[i] # "none"

InQueue(q, i) == \E k \in 1..Len(q) : q[k] = i

InCommandQ(t, a) ==
    \E k \in 1..Len(command_q) : command_q[k].type = t /\ command_q[k].arg = a

\* the main loop has taken the Exited event of terminal i
Handled(i) == taskPc[i] = "done" /\ ~InQueue(terminal_event_q, i)

Keys == {n \in Pids : terminals[n] # NoTerm}

Outputs(frames) == SelectSeq(frames, LAMBDA f : f >= 1)

\* C1: every terminal whose PTY was spawned gets exactly one TerminalClosed
\* frame: never two, and one once the main loop has taken its Exited event and
\* the command is no longer queued.
C1_ExactlyOneTerminalClosed ==
    \A i \in Reqs :
        /\ closedFrames[i] <= 1
        /\ (Handled(i) /\ ~InCommandQ("TerminalClosed", i)) => closedFrames[i] = 1

\* C2: every StartTerminal the main loop took gets exactly one TerminalStarted
\* frame: never two, and one once the command is no longer queued.
C2_ExactlyOneTerminalStarted ==
    \A r \in Reqs :
        /\ startedFrames[r] <= 1
        /\ (startedOk[r] # "none" /\ ~InCommandQ("TerminalStarted", r))
                => startedFrames[r] = 1

\* C3: the names of the running terminals are pairwise distinct, and
\* start_terminal inserts a name an earlier terminal had only after the main
\* loop has taken that terminal's Exited event (and so emitted TerminalClosed).
C3_NameReusedOnlyAfterClosed ==
    /\ [](\A i, j \in Reqs :
            (i # j /\ taskPc[i] \notin {"none", "done"}
                   /\ taskPc[j] \notin {"none", "done"}) => pid[i] # pid[j])
    /\ [][\A j \in Reqs :
            (taskPc[j] = "none" /\ taskPc'[j] # "none") =>
                \A i \in Reqs \ {j} :
                    (Spawned(i) /\ pid[i] = pid'[j]) => Handled(i)]_vars

C6_OutputsAreTheChunksTaken ==
    \A i \in Reqs :
        Outputs(out[i]) \o output_buffer[i] \o Outputs(pending[i])
            = [k \in 1..taken[i] |-> k]

\* C7: an Exit frame is the last frame enqueued for its terminal, and the
\* supervising task has ended once it is enqueued.
C7_NoOutputAfterExit ==
    \A i \in Reqs :
        \A k \in 1..Len(out[i]) :
            out[i][k] = ExitFrame => (k = Len(out[i]) /\ taskPc[i] = "done")

\* an Output frame was enqueued and then the Exit frame
C7_Witness ==
    \E i \in Reqs : Len(out[i]) >= 2 /\ out[i][Len(out[i])] = ExitFrame

\* C8: the exit code of a terminal's Exited event is 0 iff its child exited
\* successfully or its shutdown signal was fired.
C8_ExitCodeZeroIffSuccessOrShutdown ==
    \A i \in Reqs :
        exitCode[i] # NoCode =>
            (exitCode[i] = 0 <=> (child[i] = "ok" \/ shutdown_rx[i] = "fired"))

C10_ControlReconnectKeepsTerminals ==
    [][(ctlConn' # ctlConn \/ mainPc' # mainPc) =>
        /\ UNCHANGED <<terminals, terminal_event_q, taskPc, shutdown_rx, pid, child>>
        /\ (ctlConn' = "up" /\ ctlConn # "up") =>
              (wire' = <<"control_handshake">> /\ command_q' = <<>>)]_vars

\* a terminal announced on an earlier link is in the map and running on a new
\* link that has carried the handshake only
C10_Witness ==
    \E i \in Reqs :
        /\ wire = <<"control_handshake">> /\ ctlConn = "up" /\ command_q = <<>>
        /\ startedFrames[i] = 1
        /\ HasEntry(terminals, i) /\ taskPc[i] \notin {"none", "done"}

\* C11: on every control connection the ControlHandshake is the first frame
\* written and the only handshake: every later frame is a TerminalStarted or a
\* TerminalClosed.
C11_HandshakeFirstAndOnce ==
    ctlConn # "none" =>
        /\ wire # <<>> /\ wire[1] = "control_handshake"
        /\ \A k \in 2..Len(wire) : wire[k] \in {"terminal_started", "terminal_closed"}

\* a link that carried the handshake, a TerminalStarted and a TerminalClosed
C11_Witness ==
    /\ Len(wire) >= 3 /\ wire[1] = "control_handshake"
    /\ \E k \in 2..Len(wire) : wire[k] = "terminal_closed"

\* C12: on every data connection the handshake is the first frame written on
\* the socket and the only handshake: every Output, Snapshot, Exit or close
\* frame comes after it, on the first connection and on every later one.
C12_DataHandshakeFirst ==
    \A i \in Reqs :
        sendTask[i] # "none" =>
            /\ socket[i] # <<>> /\ socket[i][1] = HandshakeFrame
            /\ \A k \in 2..Len(socket[i]) : socket[i][k] # HandshakeFrame

\* a later connection of a terminal: chunk 1 was enqueued on an earlier one,
\* this socket carries the handshake, chunk 2 and the Exit frame
C12_Witness ==
    \E i \in Reqs :
        /\ Len(out[i]) >= 3 /\ out[i][1] = 1
        /\ socket[i] = <<HandshakeFrame, 2, ExitFrame>>

\* C13: remove_terminal on a name that is not in the map leaves the map as it
\* is, and removing twice is removing once; a step in which the main loop takes
\* a CloseTerminal for a name that is not in the map (close_terminal returns
\* "not found") leaves the map alone and fires or drops no shutdown signal.
C13_AbsentNameIsNoOp ==
    /\ [](\A n \in Pids :
            /\ ~ContainsKey(terminals, n) => RemoveTerminal(terminals, n) = terminals
            /\ RemoveTerminal(RemoveTerminal(terminals, n), n)
                    = RemoveTerminal(terminals, n))
    /\ [][(/\ mainPc = "loop" /\ control_event_q # <<>>
           /\ Head(control_event_q).type = "CloseTerminal"
           /\ terminals[Head(control_event_q).arg] = NoTerm
           /\ control_event_q' = Tail(control_event_q))
                => UNCHANGED <<terminals, shutdown_rx, left, taskPc>>]_vars

\* remove_terminal has run on the name of a terminal that close_terminal had
\* removed, with another terminal in the map, and a CloseTerminal for a name
\* that is not in the map is the next event
C13_Witness ==
    /\ \E i \in Reqs : left[i] = "close" /\ Handled(i) /\ Keys # {}
    /\ control_event_q # <<>>
    /\ Head(control_event_q).type = "CloseTerminal"
    /\ terminals[Head(control_event_q).arg] = NoTerm

\* C14: a StartTerminal whose start_terminal failed has no entry in the map and
\* no supervising task, and it is answered: its TerminalStarted{success=false}
\* command is queued or its frame has been written.
C14_FailedStartIsAnswered ==
    \A r \in Reqs :
        startedOk[r] = "err" =>
            /\ taskPc[r] = "none" /\ ~HasEntry(terminals, r)
            /\ \/ \E k \in 1..Len(command_q) :
                    command_q[k] = Command("TerminalStarted", r, 1)
               \/ startedFrames[r] = 1

\* C14 without the answer: a failed start_terminal leaves the map alone and
\* spawns no supervising task.
C14_FailedStartLeavesMap ==
    [][\A r \in Reqs :
        (startedOk[r] = "none" /\ startedOk'[r] = "err") =>
            (terminals' = terminals /\ taskPc' = taskPc /\ shutdown_rx' = shutdown_rx)]_vars

\* a data frame the protocol does not define: empty, an unknown prefix byte, or
\* a Resize or SnapshotRequest whose payload is not the JSON it needs
Malformed(data) ==
    \/ data = <<>>
    \/ data[1] \notin 0..4
    \/ data[1] \in {1, 4} /\ data[2] # "valid"

MessageOfTag == <<"Input", "Resize", "Pause", "Resume", "RequestSnapshot">>

\* C15: a step in which an inbound half reads a malformed data frame changes
\* nothing but its count of frames: no message for the bridge, no event, no
\* terminal state, and the half goes on; a well-formed frame read during a run
\* is decoded and delivered to the bridge, also after skipped ones. A step in
\* which the control actor skips a frame leaves the actor running and sends no
\* event and no command.
C15_MalformedFrameIsSkipped ==
    [][/\ \A i \in Reqs :
            (received'[i] = received[i] + 1 /\ Malformed(lastData'[i])) =>
                /\ recvTask'[i] = "up"
                /\ UNCHANGED <<relay_rx_q, ctlVars, mgrVars, termVars, paused, screenVars,
                               output_buffer, taken, out, socket, relay_tx_q,
                               sendTask, pending>>
       /\ \A i \in Reqs :
            (received'[i] = received[i] + 1 /\ ~Malformed(lastData'[i]) /\ InRun(i)) =>
                /\ recvTask'[i] = "up"
                /\ relay_rx_q'[i] = Append(relay_rx_q[i], MessageOfTag[lastData'[i][1] + 1])
       /\ skipped' = skipped + 1 =>
                /\ ctlConn' = "up"
                /\ UNCHANGED <<control_event_q, command_q, mainPc, wire, mgrVars,
                               termVars, dataVars>>]_vars

\* on one data connection a frame was skipped and the next frame, a Pause, is
\* delivered to the bridge; the control actor has skipped a frame and runs
C15_Witness ==
    /\ \E i \in Reqs :
            /\ skippedData[i] = 1 /\ received[i] = 2
            /\ lastData[i] = <<2, "valid">> /\ relay_rx_q[i] = <<"Pause">>
    /\ skipped = 1 /\ ctlConn = "up"

\* C16: in a step that starts and ends with the pause flag set (after a Pause
\* was handled, before the next Resume is) no Output frame is enqueued, and a
\* chunk taken from the PTY reader is appended to the backlog.
C16_NoOutputWhilePaused ==
    [][\A i \in Reqs :
        (paused[i] /\ paused'[i]) =>
            /\ Outputs(out'[i]) = Outputs(out[i])
            /\ taken'[i] # taken[i] =>
                    output_buffer'[i] = Append(output_buffer[i], taken'[i])]_vars

\* chunk 1 was sent as Output, then Pause was handled and chunk 2 is in the
\* backlog
C16_Witness ==
    \E i \in Reqs :
        paused[i] /\ Outputs(out[i]) = <<1>> /\ output_buffer[i] = <<2>>

\* C17: a supervising task that ends from a bridge run or from a reconnect
\* sleep after its shutdown signal was fired ends with Exited{name, 0}.
C17_ShutdownEndsTaskWithZero ==
    [][\A i \in Reqs :
        (/\ shutdown_rx[i] = "fired"
         /\ taskPc[i] \in {"run", "exitPolled", "blocked", "sleep"}
         /\ taskPc'[i] = "done") => exitCode'[i] = 0]_vars

\* C18: a bridge run that returns for a child that has exited, with no
\* shutdown signal and with the data channel still open, has enqueued an
\* Exit frame before it returns.
C18_NaturalExitEnqueuesExit ==
    [][\A i \in Reqs :
        (/\ InRun(i)
         /\ taskPc'[i] \in {"check", "done"}
         /\ child[i] # "running"
         /\ shutdown_rx[i] = "pending"
         /\ sendTask[i] = "up")
            => \E k \in 1..Len(out'[i]) : out'[i][k] = ExitFrame]_vars

\* C19: when ctrl-c ends the process, the shutdown signal of every terminal
\* that is in the map has been fired.
C19_CtrlCFiresEverySignal ==
    [][MainCtrlC =>
        \A r \in Reqs : HasEntry(terminals, r) => shutdown_rx'[r] = "fired"]_vars

\* min(base_delay * 2^n, max_delay) in unbounded arithmetic
RECURSIVE CappedDoubling(_)
CappedDoubling(n) ==
    IF n = 0 THEN Min(base_delay, max_delay)
    ELSE LET d == 2 * CappedDoubling(n - 1) IN Min(d, max_delay)

\* C20: the (n+1)-th next_delay call since construction or the last reset
\* returns min(1 s * 2^n, 60 s) and adds one to the counter, for every n, and
\* a successful connect resets the counter to 0.
C20_NextDelayIsCappedDoubling ==
    [][/\ mainPc' # "panicked"
       /\ (mainPc # "backoff" /\ mainPc' = "backoff") =>
            /\ current_attempt' = current_attempt + 1
            /\ delay' = CappedDoubling(current_attempt)
       /\ mainPc' = "loop" => current_attempt' = 0]_vars

\* the same for the calls whose power fits 32 bits
C20_NextDelayBelowOverflow ==
    [][~Pow2U32(current_attempt).ovf =>
        /\ mainPc' # "panicked"
        /\ (mainPc # "backoff" /\ mainPc' = "backoff") =>
             /\ current_attempt' = current_attempt + 1
             /\ delay' = CappedDoubling(current_attempt)
        /\ mainPc' = "loop" => current_attempt' = 0]_vars

ReconnectDelays ==
    {Min(first_reconnect_delay * 2^n, max_reconnect_delay) : n \in 0..8}

\* C22: the reconnect delay of a supervising task starts at 1 s, becomes
\* min(2 * delay, 30 s) when a reconnect sleep completes, is 1 s after every
\* successful data connection, changes at no other step, and is always one
\* of 1, 2, 4, 8, 16, 30 s.
C22_TaskDelayDoublesToCap ==
    /\ [](\A i \in Reqs : reconnect_delay[i] \in ReconnectDelays)
    /\ [][\A i \in Reqs :
            /\ (taskPc[i] = "sleep" /\ taskPc'[i] = "connect") =>
                    reconnect_delay'[i] = Min(2 * reconnect_delay[i], max_reconnect_delay)
            /\ (taskPc[i] = "connect" /\ taskPc'[i] = "run") =>
                    reconnect_delay'[i] = first_reconnect_delay
            /\ (taskPc[i] = "none" /\ taskPc'[i] = "connect") =>
                    reconnect_delay'[i] = first_reconnect_delay
            /\ reconnect_delay'[i] # reconnect_delay[i] =>
                    taskPc[i] \in {"sleep", "connect"}]_vars

\* a task whose delay has grown to the cap is in a reconnect sleep again
C22_Witness ==
    \E i \in Reqs :
        taskPc[i] = "sleep" /\ reconnect_delay[i] = max_reconnect_delay

\* C23: shutdown_all fires the signal of every entry of the map whose task
\* has not ended, leaves the signals of the other terminals as they were,
\* leaves the map empty, and returns whatever the tasks do.
C23_ShutdownAllFiresDrainsReturns ==
    /\ [][mainPc = "loop" /\ mainPc' = "joining" =>
            /\ \A r \in Reqs :
                    IF HasEntry(terminals, r) /\ taskPc[r] # "done"
                    THEN shutdown_rx[r] = "pending" /\ shutdown_rx'[r] = "fired"
                    ELSE shutdown_rx'[r] = shutdown_rx[r]
            /\ \A n \in Pids : terminals'[n] = NoTerm]_vars
    /\ (mainPc = "joining") ~> (mainPc = "exited")

\* shutdown_all has returned although a task it signalled has not ended
C23_Witness ==
    /\ mainPc = "exited"
    /\ \E r \in Reqs : left[r] = "abandoned" /\ taskPc[r] # "done"
    /\ \E r \in Reqs : left[r] = "joined"

\* C24: when the control actor ends for any reason but the Shutdown command
\* it appends one Disconnected event in that step, with clean set exactly
\* when a close frame was received; it appends none when it ends because of
\* Shutdown, and its event queue never holds two Disconnected events.
C24_DisconnectedOnceUnlessShutdown ==
    /\ [][(ctlConn = "up" /\ ctlConn' = "ended") =>
            IF actorEnd' = "shutdown"
            THEN control_event_q' = control_event_q
            ELSE control_event_q' = Append(control_event_q,
                    Event("Disconnected", IF actorEnd' = "close" THEN 1 ELSE 0))]_vars
    /\ [](Cardinality({k \in 1..Len(control_event_q) :
                control_event_q[k].type = "Disconnected"}) <= 1)

\* C25: the actor takes the commands of its queue in order and writes each
\* one before the next; when it takes Shutdown it writes nothing but the
\* close frame and ends, so the close frame comes after the frame of every
\* command enqueued before Shutdown and is the last frame of its connection.
C25_ShutdownClosesAfterQueuedCommands ==
    /\ [][(ctlConn = "up" /\ ctlConn' = "up" /\ Len(command_q') < Len(command_q)) =>
            /\ command_q' = Tail(command_q)
            /\ wire' = Append(wire, Frame(Head(command_q)))]_vars
    /\ [][(actorEnd # "shutdown" /\ actorEnd' = "shutdown") =>
            /\ Head(command_q).type = "Shutdown"
            /\ ctlConn' = "ended"
            /\ wire' \in {wire, Append(wire, ControlClose)}]_vars
    /\ [][ctlConn = "ended" => (wire' = wire \/ ctlConn' = "up")]_vars
    /\ [](\A k \in 1..Len(wire) : wire[k] = ControlClose => k = Len(wire))

\* the answer to a StartTerminal was queued before Shutdown and the close
\* frame follows its frame
C25_Witness ==
    /\ actorEnd = "shutdown"
    /\ wire = <<"control_handshake", "terminal_started", ControlClose>>


\* C26: in every reachable state the size of the emulator of a terminal is
\* the size of the window of its PTY
C26_EmulatorSizeIsPtySize == \A i \in Reqs : parser_size[i] = pty_size[i]

\* the emulator has the size of the last Resize the bridge handled, and the
\* PTY has it too unless its resize failed
C26_EmulatorFollowsResize ==
    [][\A i \in Reqs :
            (parser_size'[i] # parser_size[i] /\ parser_size[i] # NoSize)
                => /\ parser_size'[i] \in ResizeSizes
                   /\ pty_size'[i] \in {pty_size[i], parser_size'[i]}]_vars


\* the handler of a SnapshotRequest has run for terminal i in this step
SnapshotHandled(i) == Len(snapshots'[i]) > Len(snapshots[i])

\* the step creates one Snapshot with the cursor as (x = column, y = row) and
\* the emulator's size and contents, hands it to the data channel, and leaves
\* the pause flag, the backlog, the PTY and the emulator as they were
SnapshotAnswered(i) ==
    LET m == snapshots'[i][Len(snapshots'[i])]
        pos == CursorPosition(parser_fed[i])
    IN  /\ Len(snapshots'[i]) = Len(snapshots[i]) + 1
        /\ m.cursor_x = pos[2] /\ m.cursor_y = pos[1]
        /\ m.cols = parser_size[i][1] /\ m.rows = parser_size[i][2]
        /\ m.screen = parser_fed[i]
        /\ \/ out'[i] = Append(out[i], SnapshotFrame) /\ pending'[i] = <<>>
           \/ out'[i] = out[i] /\ pending'[i] = <<SnapshotFrame>>
        /\ paused'[i] = paused[i]
        /\ output_buffer'[i] = output_buffer[i]
        /\ pty_size'[i] = pty_size[i] /\ child'[i] = child[i] /\ taken'[i] = taken[i]
        /\ parser_size'[i] = parser_size[i] /\ parser_fed'[i] = parser_fed[i]

\* C27: handling a SnapshotRequest enqueues exactly one Snapshot frame with
\* cursorX the cursor column and cursorY the cursor row, and leaves the pause
\* flag, the backlog, the PTY and the emulator unchanged, paused or not
C27_SnapshotDisturbsNothing ==
    [][\A i \in Reqs : SnapshotHandled(i) => SnapshotAnswered(i)]_vars

\* the same while the outbound half of the data connection is up
C27_SnapshotWhileSendTaskUp ==
    [][\A i \in Reqs :
            (SnapshotHandled(i) /\ sendTask[i] = "up") => SnapshotAnswered(i)]_vars

\* a paused bridge with a backlog that has answered a SnapshotRequest after
\* the emulator has processed a chunk
C27_PausedAnswered ==
    \E i \in Reqs :
        /\ paused[i] /\ output_buffer[i] # <<>>
        /\ snapshots[i] # <<>>
        /\ snapshots[i][Len(snapshots[i])].cursor_x > 0
        /\ Len(SelectSeq(out[i], LAMBDA f : f = SnapshotFrame)) = Len(snapshots[i])


\* C28: a child that exits while a bridge run is active is found by the
\* bridge's try_wait, also when no chunk and no frame arrives after the exit
C28_ExitPolledWithoutEvent ==
    \A i \in Reqs :
        (taskPc[i] = "run" /\ child[i] # "running") ~> (taskPc[i] = "exitPolled")

\* a child whose exit the poll after a handled event has found
C28_PolledAfterEvent == \E i \in Reqs : taskPc[i] = "exitPolled"

\* the poll follows a handled event: the bridge comes to exitPolled only in a
\* step that takes a chunk, handles a frame or completes a send
C28_PollOnlyAfterEvent ==
    [][\A i \in Reqs :
            (taskPc[i] # "exitPolled" /\ taskPc'[i] = "exitPolled")
                => \/ taken'[i] # taken[i]
                   \/ relay_rx_q'[i] # relay_rx_q[i]
                   \/ pending'[i] # pending[i]]_vars


\* the chunks 1..n in the order the reader yields them
ChunksTaken(n) == [k \in 1..n |-> k]

\* C29: the chunks fed to the emulator are the chunks the bridge took from
\* the PTY reader, in order and once each, paused or not, whether the enqueue
\* that follows succeeds or not, and across data reconnects
C29_EmulatorFedEveryChunk == \A i \in Reqs : parser_fed[i] = ChunksTaken(taken[i])

\* a bridge in a later run, paused, whose emulator has been fed chunk 1, lost
\* with an earlier run that took it, and chunk 2, which is in the backlog
C29_FedLostAndBufferedChunks ==
    \E i \in Reqs :
        /\ taskPc[i] = "run" /\ paused[i]
        /\ parser_fed[i] = <<1, 2>>
        /\ output_buffer[i] = <<2>>
        /\ pending[i] = <<>>
        /\ SelectSeq(out[i], LAMBDA f : f >= 1) = <<>>


\* the frames of the send queue written on the socket of terminal i
Written(i) == SelectSeq(socket[i], LAMBDA f : f \notin {HandshakeFrame, CloseFrame})

\* s is the end of t
IsSuffix(s, t) ==
    /\ Len(s) <= Len(t)
    /\ s = SubSeq(t, Len(t) - Len(s) + 1, Len(t))

\* C30: the outbound half writes the frames of the send queue in enqueue
\* order, and writes the close frame only after every frame that was queued
\* when the owner dropped the queue, the Exit frame of a natural exit included
C30_QueueWrittenInOrderBeforeClose ==
    \A i \in Reqs :
        /\ sendTask[i] = "up" => IsSuffix(Written(i) \o relay_tx_q[i], out[i])
        /\ (\E n \in 1..Len(socket[i]) : socket[i][n] = CloseFrame)
                => /\ socket[i][Len(socket[i])] = CloseFrame
                   /\ Len(SelectSeq(socket[i], LAMBDA f : f = CloseFrame)) = 1
                   /\ sendTask[i] = "ended" /\ relay_tx_q[i] = <<>>
                   /\ IsSuffix(Written(i), out[i])
                   /\ (how[i] = "child" /\ out[i] # <<>> /\ out[i][Len(out[i])] = ExitFrame)
                        => socket[i][Len(socket[i]) - 1] = ExitFrame

\* after a natural exit the socket carries an Output, the Exit frame and then
\* the close frame
C30_ExitThenClose ==
    \E i \in Reqs :
        /\ how[i] = "child"
        /\ Len(socket[i]) >= 4
        /\ socket[i][Len(socket[i])] = CloseFrame
        /\ socket[i][Len(socket[i]) - 1] = ExitFrame
        /\ socket[i][Len(socket[i]) - 2] >= 1


\* how many items of sequence q satisfy Test
Count(q, Test(_)) == Len(SelectSeq(q, Test))

\* the StartTerminal events for request r that wait or are queued
StartEvents(r) ==
    Count(event_tx_wait \o control_event_q,
          LAMBDA e : e.type = "StartTerminal" /\ e.arg = r)

\* the commands of type t for terminal r that wait or are queued
Commands(t, r) ==
    Count(command_tx_wait \o command_q, LAMBDA c : c.type = t /\ c.arg = r)

\* C31: every channel between tasks holds at most its capacity, and no item
\* is lost at a full channel: what a producer has sent is waiting in its
\* send, is in the channel, or has been taken by the consumer, once (a
\* bridge run that ends gives up the send it waits in)
C31_ChannelsBoundedNothingLost ==
    /\ Len(control_event_q) <= MaxCap
    /\ Len(command_q) <= MaxCap
    /\ Len(terminal_event_q) <= MaxCap
    /\ Len(event_tx_wait) <= 1 /\ Len(command_tx_wait) <= 1
    /\ \A i \in Reqs : Len(relay_tx_q[i]) <= MaxCap /\ Len(relay_rx_q[i]) <= MaxCap
    /\ \A r \in Reqs :
        /\ r < nextReq => StartEvents(r) + (IF startedOk[r] = "none" THEN 0 ELSE 1) = 1
        /\ startedOk[r] # "none" => Commands("TerminalStarted", r) + startedFrames[r] = 1
        /\ taskPc[r] = "done" =>
                Count(terminal_event_q, LAMBDA e : e = r)
                    + Commands("TerminalClosed", r) + closedFrames[r] = 1
        /\ (sendTask[r] = "up" /\ InRun(r)) =>
                /\ Outputs(out[r]) \o pending[r] = ChunksTaken(taken[r])
                /\ IsSuffix(Written(r) \o relay_tx_q[r], out[r])

\* the actor waits to send an event, main waits to send a command and the
\* bridge of terminal 1 waits to send a chunk, each on a full channel
C31_ProducersWait ==
    /\ event_tx_wait # <<>> /\ Len(control_event_q) = MaxCap
    /\ command_tx_wait # <<>> /\ Len(command_q) = MaxCap
    /\ taskPc[1] = "blocked" /\ Len(relay_tx_q[1]) = MaxCap

\* C35: the actor is never waiting to send an event on a full event channel
\* while main is waiting to send a command on a full command channel
C35_NoDeadlockOnControlChannels ==
    ~ /\ ctlConn = "up"
      /\ event_tx_wait # <<>> /\ ~HasRoom(control_event_q)
      /\ command_tx_wait # <<>> /\ ~HasRoom(command_q)

\* C32: the supervising task of a terminal is spawned only while the lock of
\* the terminal map is free, and shutdown_all holds no lock while it awaits
\* the tasks
C32_SpawnedAfterLockReleased ==
    [][/\ \A r \in Reqs : (taskPc[r] = "none" /\ taskPc'[r] # "none")
                                => terminals_lock = "free"
       /\ mainPc' = "joining" => terminals_lock' = "free"]_vars

\* a task has been spawned by start_terminal
C32_TaskSpawned == \E r \in Reqs : taskPc[r] = "connect"

\* C33: a supervising task that has ended, and with it released the PTY
\* handle it owned, leaves no child running
C33_HandleDroppedAfterChildEnded ==
    \A r \in Reqs : taskPc[r] = "done" => child[r] # "running"

\* the task ended because its child was seen to have exited
C33_EndedByChild ==
    \A r \in Reqs : (taskPc[r] = "done" /\ how[r] = "child") => child[r] # "running"

\* C34: a process that exited on a fatal error (the control connect failed or
\* the control link was lost, with reconnection disabled) exited with code 1,
\* and one that exited with code 0 ended on a clean shutdown
C34_FatalErrorExitsWithOne ==
    exit_status # NoCode =>
        /\ exit_cause \in {"connect_failed", "link_lost", "channel_closed"}
                => exit_status = 1
        /\ exit_status = 0 => exit_cause = "ctrl_c"

\* the process exited because the first control connect failed with
\* reconnection disabled
C34_ConnectFailedExit == exit_cause = "connect_failed" /\ ~reconnect

\* the process exited because the control link was lost with reconnection
\* disabled
C34_LinkLostExit == exit_cause = "link_lost" /\ ~reconnect

\* every exit by a break out of 'main has code 0
C34_EveryExitIsZero == exit_status \in {NoCode, 0}

\* C36: whenever a command_tx accepts the TerminalClosed command of a
\* terminal, one has accepted the TerminalStarted command of its start
\* request before
C36_StartedEnqueuedBeforeClosed ==
    \A r \in Reqs :
        \A k \in 1..Len(enqueued[r]) :
            enqueued[r][k] = "TerminalClosed" =>
                \E j \in 1..(k - 1) : enqueued[r][j] = "TerminalStarted"

\* the supervising task of a terminal reported Exited before start_terminal
\* returned, and both commands have been enqueued
C36_ExitedBeforeStartReturned ==
    \E r \in Reqs :
        /\ taskPc[r] = "done" /\ mainPc \in {"locked", "spawned"}
        /\ r \in {terminal_event_q[k] : k \in 1..Len(terminal_event_q)}

\* both commands of a terminal have been enqueued
C36_BothEnqueued ==
    \E r \in Reqs : enqueued[r] = <<"TerminalStarted", "TerminalClosed">>

\* C37: a bridge run that starts on a new data connection starts unpaused,
\* and it starts with an empty backlog without a chunk of the earlier run's
\* backlog having been dropped
C37_RunStartsUnpausedNothingDropped ==
    [][\A i \in Reqs :
        (taskPc[i] = "connect" /\ taskPc'[i] = "run") =>
            /\ ~paused'[i]
            /\ output_buffer'[i] = <<>>
            /\ output_buffer[i] = <<>>]_vars

\* every run starts with an empty backlog
C37_RunStartsWithEmptyBacklog ==
    [][\A i \in Reqs :
        (taskPc[i] = "connect" /\ taskPc'[i] = "run") => output_buffer'[i] = <<>>]_vars

\* the map holds the entry that start_terminal inserted for terminal r
EntryOf(r) == pid[r] # NoPid /\ terminals[pid[r]] = r

C38_EntryRemovedAfterExited ==
    \A r \in Reqs :
        (taskPc[r] = "done" /\ how[r] # "error" /\ EntryOf(r)) ~> ~EntryOf(r)

\* a task has ended with an error, its Disconnected event has been handled
\* and its entry is in the map
C38_DisconnectedEntryStays ==
    \E r \in Reqs :
        /\ how[r] = "error" /\ EntryOf(r)
        /\ r \notin {terminal_event_q[k] : k \in 1..Len(terminal_event_q)}

\* C39: main goes to a connect attempt only from a backoff wait, whose delay
\* next_delay has set
C39_ReconnectOnlyAfterBackoff ==
    [][(mainPc # "connect" /\ mainPc' = "connect") =>
            (mainPc = "backoff" /\ delay # NoDelay)]_vars

\* after a Disconnected event main waits before it connects again
C39_DisconnectedEventWaits ==
    [][(mainPc = "loop" /\ control_event_q # <<>>
            /\ Head(control_event_q).type = "Disconnected"
            /\ control_event_q' = Tail(control_event_q))
        => mainPc' \in {"backoff", "exited", "panicked"}]_vars

\* the supervising task of terminal r ends in this step
TaskEnds(r) == taskPc[r] # "done" /\ taskPc'[r] = "done"

\* a TerminalEvent of terminal r is sent upstream in this step
EventSent(r) == terminal_event_q' = Append(terminal_event_q, r)

C40_ErrorEvent ==
    \E r \in Reqs :
        /\ taskPc[r] = "done" /\ how[r] = "error"
        /\ Count(terminal_event_q, LAMBDA e : e = r) = 1

====
